---- MODULE Spec2Model ----
(***************************************************************************)
(* Filesystem-as-queue routing and dispatch engine of hermes.              *)
(*                                                                         *)
(* Routers (route_series / process_series) stage the files of a series     *)
(* from incoming/ into uuid-named folders; the dispatcher scans outgoing/  *)
(* and enqueues transfer jobs; transfer workers run the external transfer  *)
(* and handle retry and suspension.  The only shared state is the          *)
(* filesystem: files, folders and empty sentinel files.                    *)
(***************************************************************************)
EXTENDS Integers, Sequences, FiniteSets, TLC

(***************************************************************************)
(* Bounds of the model.                                                    *)
(***************************************************************************)
MaxFiles == 2
MaxFolders == 3
MaxFaults == 1
MaxTime == 5
MaxRetryMax == 2
MaxRetryDelay == 1
NumStaged == 2
MaxRules == 3

Series == {"S1"}
Routers == {"r1", "r2"}
Workers == {"w1", "w2"}
FolderIds == 1..MaxFolders
Stems == 1..MaxFiles

VARIABLES
  cfg,        \* the configuration: variant, rules, retry_max, retry_delay
  incoming,   \* incoming[u]: the files <<stem, ext>> of series u in incoming/
  slock,      \* slock[u]: the sentinel incoming/<u>.lock exists
  folder,     \* folder[f]: the uuid-named folder f (zone, sentinels, task file, files)
  study,      \* the study-level folders <<uid, rule>> that exist
  rt,         \* rt[r]: the position and the locals of router instance r
  faults,     \* number of injected I/O failures so far
  dsp,        \* the dispatcher: position, entries left to scan, current entry
  queue,      \* the job queue: jobs enqueued and not yet taken
  wk,         \* wk[w]: the position and the job of transfer worker w
  now,        \* the clock (time.time())
  hist,       \* hist[f]: transfer attempts and failures of folder f so far
  evlog,      \* evlog[f]: the series events the dispatch side emitted about folder f
  terminated, \* the cooperative termination flag (helper.isTerminated())
  errfile,    \* errfile[n]: the error marker n.error, its payload n and its lock
  sweeper,    \* the error quarantiner: position, entries left, count, events
  archive     \* archive[d]: the entries of success/ and error/ by name

vars == <<cfg, incoming, slock, folder, study, rt, faults, dsp, queue, wk, now, hist,
          evlog, terminated, errfile, sweeper, archive>>

routerVars == <<incoming, slock, study, rt, faults>>
dispatchVars == <<dsp, queue, wk, now, hist, evlog, terminated>>
quarantineVars == <<errfile, sweeper>>
sideVars == <<quarantineVars, archive>>

(***************************************************************************)
(* Configuration: rules and targets.  The value of a rule's expression on  *)
(* the tags of the series is "T", "F" or "ERR" (evaluation raises).        *)
(***************************************************************************)
Rule(n, dis, e, a, trg, tgt) ==
  [name |-> n, disabled |-> dis, expr |-> e, action |-> a, trigger |-> trg, target |-> tgt]

Targets ==
  [t1 |-> [ip |-> "10.0.0.1", port |-> 104, aet_target |-> "RCV1", aet_source |-> "SND"],
   t2 |-> [ip |-> "10.0.0.2", port |-> 104, aet_target |-> "RCV2", aet_source |-> "SND"]]

TargetNames == DOMAIN Targets

RuleSets ==
  { <<Rule("ra", FALSE, "T", "route", "series", "t1")>>,
    <<Rule("ra", FALSE, "T", "route", "series", "t1"),
      Rule("rb", FALSE, "T", "route", "series", "t2")>>,
    <<Rule("ra", FALSE, "T", "route", "series", "t1"),
      Rule("rb", FALSE, "T", "route", "series", "t1")>>,
    <<Rule("ra", FALSE, "F", "route", "series", "t1")>>,
    <<Rule("ra", FALSE, "T", "route", "series", "t1"),
      Rule("rd", FALSE, "T", "discard", "series", "")>>,
    <<Rule("rx", FALSE, "ERR", "route", "series", "t2"),
      Rule("ra", FALSE, "T", "route", "series", "t1")>>,
    <<Rule("rx", TRUE, "T", "route", "series", "t2"),
      Rule("ra", FALSE, "T", "route", "series", "t1")>>,
    <<Rule("ra", FALSE, "T", "route", "series", "tX")>>,
    <<Rule("rn", FALSE, "T", "notification", "series", "")>>,
    <<Rule("rp", FALSE, "T", "process", "series", "")>>,
    <<Rule("rs", FALSE, "T", "route", "study", "t1")>> }

RuleNamed(rules, n) == rules[CHOOSE i \in 1..Len(rules) : rules[i].name = n]

(***************************************************************************)
(* Values.                                                                 *)
(***************************************************************************)
NoTask ==
  [present |-> FALSE, target_ip |-> "", target_port |-> 0, target_aet_target |-> "",
   target_aet_source |-> "", target_name |-> "", applied_rule |-> "", series_uid |-> "",
   retries |-> 0, next_retry_at |-> 0]

NoFolder ==
  [zone |-> "none", lock |-> FALSE, sending |-> FALSE, sent |-> FALSE, error |-> FALSE,
   task |-> NoTask, files |-> {}]

NoLock == [created |-> FALSE, path |-> 0]

IdleRouter ==
  [pc |-> "idle", uid |-> "", lock |-> FALSE, fileList |-> <<>>, triggered |-> <<>>,
   discard_rule |-> "", selected |-> <<>>, ti |-> 0, cur |-> 0, flock |-> NoLock,
   fi |-> 0, ret |-> "", log |-> <<>>]

SeriesFiles == {<<s, e>> : s \in Stems, e \in {"dcm", "tags"}}

\* str(uuid.uuid1()): a name no folder had before
FreshFolder ==
  CHOOSE f \in FolderIds :
    folder[f].zone = "none" /\ \A g \in FolderIds : g < f => folder[g].zone # "none"
HasFresh == \E f \in FolderIds : folder[f].zone = "none"

(***************************************************************************)
(* FileLock: the sentinel-file lock.  exists is whether the sentinel file  *)
(* exists; touchFails is the outcome of the filesystem call.               *)
(***************************************************************************)
\* __init__: lockCreated is set before touch(); touch() succeeds on an existing file
FileLock_init(exists, touchFails) ==
  [raised |-> touchFails, created |-> TRUE, exists |-> IF touchFails THEN exists ELSE TRUE]

\* free(): unlink() raises when the file is missing, and lockCreated then stays True
FileLock_free(created, exists) ==
  IF created
  THEN [raised |-> ~exists, created |-> ~exists, exists |-> FALSE]
  ELSE [raised |-> FALSE, created |-> FALSE, exists |-> exists]

\* a FileLock whose destructor does not release the sentinel
FileLock_del_noop(created, exists) == exists

\* __del__: free(); an exception raised in a destructor is ignored
FileLock_del(created, exists) == FileLock_free(created, exists).exists

(***************************************************************************)
(* Rule evaluation.                                                        *)
(***************************************************************************)
RECURSIVE TriggeredFrom(_, _, _, _)
TriggeredFrom(rules, i, trig, errs) ==
  IF i > Len(rules)
  THEN [triggered |-> trig, discard_rule |-> "", errors |-> errs]
  ELSE LET rule == rules[i] IN
       IF rule.disabled THEN TriggeredFrom(rules, i + 1, trig, errs)
       ELSE IF rule.expr = "ERR"
       THEN TriggeredFrom(rules, i + 1, trig, Append(errs, <<"PROCESSING_ERROR", rule.name>>))
       ELSE IF rule.expr = "T"
       THEN IF rule.action = "discard"
            THEN [triggered |-> Append(trig, rule.name), discard_rule |-> rule.name,
                  errors |-> errs]
            ELSE TriggeredFrom(rules, i + 1, Append(trig, rule.name), errs)
       ELSE TriggeredFrom(rules, i + 1, trig, errs)

RECURSIVE TriggeredFrom_stop(_, _, _, _)
TriggeredFrom_stop(rules, i, trig, errs) ==
  IF i > Len(rules)
  THEN [triggered |-> trig, discard_rule |-> "", errors |-> errs]
  ELSE LET rule == rules[i] IN
       IF rule.disabled THEN TriggeredFrom_stop(rules, i + 1, trig, errs)
       ELSE IF rule.expr = "ERR"
       THEN [triggered |-> trig, discard_rule |-> "",
             errors |-> Append(errs, <<"PROCESSING_ERROR", rule.name>>)]
       ELSE IF rule.expr = "T"
       THEN IF rule.action = "discard"
            THEN [triggered |-> Append(trig, rule.name), discard_rule |-> rule.name,
                  errors |-> errs]
            ELSE TriggeredFrom_stop(rules, i + 1, Append(trig, rule.name), errs)
       ELSE TriggeredFrom_stop(rules, i + 1, trig, errs)

\* an evaluation that an invalid rule brings to an end
get_triggered_rules_stop(rules) == TriggeredFrom_stop(rules, 1, <<>>, <<>>)

RECURSIVE TriggeredFrom_all(_, _, _, _)
TriggeredFrom_all(rules, i, trig, errs) ==
  IF i > Len(rules)
  THEN [triggered |-> trig, discard_rule |-> "", errors |-> errs]
  ELSE LET rule == rules[i] IN
       IF rule.expr = "ERR"
       THEN TriggeredFrom_all(rules, i + 1, trig,
                              Append(errs, <<"PROCESSING_ERROR", rule.name>>))
       ELSE IF rule.expr = "T"
       THEN IF rule.action = "discard"
            THEN [triggered |-> Append(trig, rule.name), discard_rule |-> rule.name,
                  errors |-> errs]
            ELSE TriggeredFrom_all(rules, i + 1, Append(trig, rule.name), errs)
       ELSE TriggeredFrom_all(rules, i + 1, trig, errs)

\* an evaluation that does not look at the disabled flag
get_triggered_rules_all(rules) == TriggeredFrom_all(rules, 1, <<>>, <<>>)

RECURSIVE TriggeredFrom_nobreak(_, _, _, _, _)
TriggeredFrom_nobreak(rules, i, trig, errs, disc) ==
  IF i > Len(rules)
  THEN [triggered |-> trig, discard_rule |-> disc, errors |-> errs]
  ELSE LET rule == rules[i] IN
       IF rule.disabled THEN TriggeredFrom_nobreak(rules, i + 1, trig, errs, disc)
       ELSE IF rule.expr = "ERR"
       THEN TriggeredFrom_nobreak(rules, i + 1, trig,
                                  Append(errs, <<"PROCESSING_ERROR", rule.name>>), disc)
       ELSE IF rule.expr = "T"
       THEN TriggeredFrom_nobreak(rules, i + 1, Append(trig, rule.name), errs,
                                  IF rule.action = "discard" THEN rule.name ELSE disc)
       ELSE TriggeredFrom_nobreak(rules, i + 1, trig, errs, disc)

\* an evaluation that goes through all rules after a DISCARD rule has triggered
get_triggered_rules_nobreak(rules) == TriggeredFrom_nobreak(rules, 1, <<>>, <<>>, "")

\* route_series.get_triggered_rules
get_triggered_rules(rules) == TriggeredFrom(rules, 1, <<>>, <<>>)

\* a target list that takes one entry per rule
DictPut_append(sel, t, rname) == Append(sel, [target |-> t, rule |-> rname])

\* selected_targets[target] = rule on a dict: a new key goes last, an old key keeps its place
DictPut(sel, t, rname) ==
  IF \E k \in 1..Len(sel) : sel[k].target = t
  THEN [k \in 1..Len(sel) |->
          IF sel[k].target = t THEN [target |-> t, rule |-> rname] ELSE sel[k]]
  ELSE Append(sel, [target |-> t, rule |-> rname])

RECURSIVE SelectedFrom(_, _, _, _, _)
SelectedFrom(rules, names, i, sel, hooks) ==
  IF i > Len(names)
  THEN [selected |-> sel, hooks |-> hooks]
  ELSE LET rule == RuleNamed(rules, names[i]) IN
       IF rule.trigger = "series" /\ rule.action = "route"
       THEN SelectedFrom(rules, names, i + 1,
                         IF rule.target # "" THEN DictPut(sel, rule.target, rule.name) ELSE sel,
                         Append(hooks, <<"WEBHOOK", rule.name>>))
       ELSE SelectedFrom(rules, names, i + 1, sel, hooks)

\* route_series.push_serieslevel_routing: the targets of the triggered series-level ROUTE rules
serieslevel_targets(rules, names) == SelectedFrom(rules, names, 1, <<>>, <<>>)

RECURSIVE RoutingFrom(_, _, _, _)
RoutingFrom(rules, i, sel, errs) ==
  IF i > Len(rules)
  THEN [selected |-> sel, errors |-> errs]
  ELSE LET rule == rules[i] IN
       IF rule.disabled THEN RoutingFrom(rules, i + 1, sel, errs)
       ELSE IF \E k \in 1..Len(sel) : sel[k].target = rule.name
       THEN RoutingFrom(rules, i + 1, sel, errs)
       ELSE IF rule.expr = "ERR"
       THEN RoutingFrom(rules, i + 1, sel, Append(errs, <<"PROCESSING_ERROR", rule.name>>))
       ELSE IF rule.expr = "T" /\ rule.target # ""
       THEN RoutingFrom(rules, i + 1, DictPut(sel, rule.target, rule.name), errs)
       ELSE RoutingFrom(rules, i + 1, sel, errs)

\* process_series.get_routing_targets
get_routing_targets(rules) == RoutingFrom(rules, 1, <<>>, <<>>)

IsStudy(rule) == rule.trigger = "study"
IsProcessing(rule) == rule.trigger = "series" /\ rule.action \in {"process", "both"}
IsNotification(rule) == rule.trigger = "series" /\ rule.action = "notification"

HasStudy(rules, names) == \E i \in 1..Len(names) : IsStudy(RuleNamed(rules, names[i]))
FirstStudy(rules, names) ==
  names[CHOOSE i \in 1..Len(names) :
          /\ IsStudy(RuleNamed(rules, names[i]))
          /\ \A j \in 1..(i - 1) : ~IsStudy(RuleNamed(rules, names[j]))]
HasProcessing(rules, names) ==
  \E i \in 1..Len(names) : IsProcessing(RuleNamed(rules, names[i]))
HasNotification(rules, names) ==
  \E i \in 1..Len(names) : IsNotification(RuleNamed(rules, names[i]))
FirstNotification(rules, names) ==
  names[CHOOSE i \in 1..Len(names) :
          /\ IsNotification(RuleNamed(rules, names[i]))
          /\ \A j \in 1..(i - 1) : ~IsNotification(RuleNamed(rules, names[j]))]

\* the task descriptor written into an outgoing folder
TaskFile(uid, target, rname) ==
  [present |-> TRUE, target_ip |-> Targets[target].ip, target_port |-> Targets[target].port,
   target_aet_target |-> Targets[target].aet_target,
   target_aet_source |-> Targets[target].aet_source,
   target_name |-> target, applied_rule |-> rname, series_uid |-> uid,
   retries |-> 0, next_retry_at |-> 0]

RECURSIVE SortedSeq(_)
SortedSeq(S) ==
  IF S = {} THEN <<>>
  ELSE LET m == CHOOSE x \in S : \A y \in S : x <= y IN <<m>> \o SortedSeq(S \ {m})

\* the k-th file operation of a loop over the file pairs: .dcm first, then .tags
FileAt(fl, k) == <<fl[(k + 1) \div 2], IF k % 2 = 1 THEN "dcm" ELSE "tags">>
\* remove_series removes .tags first, then .dcm
RemoveAt(fl, k) == <<fl[(k + 1) \div 2], IF k % 2 = 1 THEN "tags" ELSE "dcm">>
\* an exception on the first file of a pair skips the second one
NextFile(k, failed) == IF failed /\ k % 2 = 1 THEN k + 2 ELSE k + 1

(***************************************************************************)
(* The router: route_series (variant "route") and process_series (variant  *)
(* "process").  Each step is one filesystem operation with the local       *)
(* computation that follows it.                                            *)
(***************************************************************************)
Me(r) == rt[r]
SetRouter(r, rec) == rt' = [rt EXCEPT ![r] = rec]

\* the folder lock object of a staging function is destroyed: __del__ on its sentinel
DropFolderLock(fl, lk) ==
  IF lk.created
  THEN [fl EXCEPT ![lk.path].lock = FileLock_del(TRUE, @)]
  ELSE fl

\* The call is left by return or by an exception: the FileLock objects still alive
\* are destroyed.  fl is the folder state the step itself produced.
Leave(r, how, events, fl) ==
  /\ slock' = [slock EXCEPT ![Me(r).uid] = FileLock_del(Me(r).lock, @)]
  /\ folder' = DropFolderLock(fl, Me(r).flock)
  /\ SetRouter(r, [Me(r) EXCEPT !.pc = "idle", !.lock = FALSE, !.flock = NoLock,
                                !.ret = how, !.log = @ \o events])

\* route_series / process_series: if lock_file.exists(): return
RouteEnter(r) ==
  /\ Me(r).pc = "idle"
  /\ \E u \in Series :
       SetRouter(r, [IdleRouter EXCEPT !.uid = u,
                                       !.pc = IF slock[u] THEN "idle" ELSE "create",
                                       !.ret = IF slock[u] THEN "busy" ELSE ""])
  /\ UNCHANGED <<cfg, incoming, slock, folder, study, faults>>
  /\ UNCHANGED <<dispatchVars, sideVars>>

\* lock = FileLock(lock_file), and the except branch around it
RouteLock(r) ==
  /\ Me(r).pc = "create"
  /\ \E touchFails \in BOOLEAN :
       /\ touchFails => faults < MaxFaults
       /\ faults' = IF touchFails THEN faults + 1 ELSE faults
       /\ LET res == FileLock_init(slock[Me(r).uid], touchFails) IN
          IF res.raised
          THEN /\ slock' = [slock EXCEPT ![Me(r).uid] = FileLock_del(res.created, res.exists)]
               /\ SetRouter(r, [Me(r) EXCEPT !.pc = "idle", !.ret = "lockfail",
                                             !.log = Append(@, <<"PROCESSING_ERROR", "lock">>)])
          ELSE /\ slock' = [slock EXCEPT ![Me(r).uid] = res.exists]
               /\ SetRouter(r, [Me(r) EXCEPT !.pc = "scan", !.lock = res.created])
  /\ UNCHANGED <<cfg, incoming, folder, study>>
  /\ UNCHANGED <<dispatchVars, sideVars>>

\* os.scandir(incoming): the stems of the tags files of the series
RouteScan(r) ==
  /\ Me(r).pc = "scan"
  /\ SetRouter(r, [Me(r) EXCEPT
        !.pc = "master",
        !.fileList = SortedSeq({s \in Stems : <<s, "tags">> \in incoming[Me(r).uid]})])
  /\ UNCHANGED <<cfg, incoming, slock, folder, study, faults>>
  /\ UNCHANGED <<dispatchVars, sideVars>>

\* where route_series goes once the tags are read: discard, study-level or series-level
RouteDecision(r) ==
  LET res == get_triggered_rules(cfg.rules)
      sel == serieslevel_targets(cfg.rules, res.triggered)
      reg == <<<<"REGISTERED", Me(r).uid>>>> \o res.errors
  IN  IF Len(res.triggered) = 0 \/ res.discard_rule # ""
      THEN [Me(r) EXCEPT !.pc = "discard", !.triggered = res.triggered,
                         !.discard_rule = res.discard_rule, !.log = @ \o reg]
      ELSE IF HasStudy(cfg.rules, res.triggered)
      THEN [Me(r) EXCEPT !.pc = "study", !.triggered = res.triggered, !.log = @ \o reg]
      ELSE [Me(r) EXCEPT !.pc = "stage", !.triggered = res.triggered,
                         !.selected = sel.selected, !.ti = 1,
                         !.log = @ \o reg \o sel.hooks]

\* where process_series goes once the tags are read: discard or outgoing
ProcessDecision(r) ==
  LET res == get_routing_targets(cfg.rules)
      reg == <<<<"REGISTERED", Me(r).uid>>>> \o res.errors
  IN  IF Len(res.selected) = 0
      THEN [Me(r) EXCEPT !.pc = "discard", !.log = @ \o reg]
      ELSE [Me(r) EXCEPT !.pc = "stage", !.selected = res.selected, !.ti = 1,
                         !.log = @ \o reg]

\* fileList[0], tagsMasterFile.exists(), json.load, rule evaluation
RouteMaster(r) ==
  /\ Me(r).pc = "master"
  /\ IF Me(r).fileList = <<>>
     THEN Leave(r, "exception", <<>>, folder)
     ELSE IF <<Me(r).fileList[1], "tags">> \notin incoming[Me(r).uid]
     THEN Leave(r, "missing", <<<<"PROCESSING_ERROR", "missing">>>>, folder)
     ELSE IF ~cfg.tagsOk
     THEN Leave(r, "parse", <<<<"ERROR", "tags">>, <<"PROCESSING_ERROR", "tags">>>>, folder)
     ELSE /\ SetRouter(r, IF cfg.variant = "route" THEN RouteDecision(r)
                                                   ELSE ProcessDecision(r))
          /\ UNCHANGED <<slock, folder>>
  /\ UNCHANGED <<cfg, incoming, study, faults>>
  /\ UNCHANGED <<dispatchVars, sideVars>>

\* the phase after the outgoing staging loop of push_serieslevel_outgoing /
\* push_series_outgoing has ended
AfterStage(r) ==
  IF cfg.variant = "process" THEN "release"
  ELSE IF HasProcessing(cfg.rules, Me(r).triggered) THEN "proc"
  ELSE IF HasNotification(cfg.rules, Me(r).triggered) THEN "notif"
  ELSE IF Len(Me(r).triggered) > 1 THEN "remove"
  ELSE "release"

\* the phase after push_serieslevel_processing
AfterProc(r) ==
  IF HasNotification(cfg.rules, Me(r).triggered) THEN "notif"
  ELSE IF Len(Me(r).triggered) > 1 THEN "remove"
  ELSE "release"

\* push_series_discard: os.mkdir(discard_path).  In route_series the folder lock path
\* is then built as str / str, which raises TypeError; its handler reads the unbound
\* lock_file, and that exception leaves route_series.
RouteDiscard(r) ==
  /\ Me(r).pc = "discard"
  /\ \E mkdirFails \in BOOLEAN :
       /\ mkdirFails => faults < MaxFaults
       /\ faults' = IF mkdirFails THEN faults + 1 ELSE faults
       /\ IF mkdirFails
          THEN /\ SetRouter(r, [Me(r) EXCEPT !.pc = "release",
                                   !.log = Append(@, <<"PROCESSING_ERROR", "mkdir">>)])
               /\ UNCHANGED <<slock, folder>>
          ELSE /\ HasFresh
               /\ LET f == FreshFolder
                      made == [folder EXCEPT ![f] = [NoFolder EXCEPT !.zone = "discard"]]
                  IN  IF cfg.variant = "route"
                      THEN Leave(r, "exception", <<>>, made)
                      ELSE /\ folder' = made
                           /\ SetRouter(r, [Me(r) EXCEPT !.pc = "disc_lock", !.cur = f])
                           /\ UNCHANGED slock
  /\ UNCHANGED <<cfg, incoming, study>>
  /\ UNCHANGED <<dispatchVars, sideVars>>

\* process_series.push_series_discard: the folder lock and the DISCARD event
DiscardLock(r) ==
  /\ Me(r).pc = "disc_lock"
  /\ LET res == FileLock_init(folder[Me(r).cur].lock, FALSE) IN
     /\ folder' = [folder EXCEPT ![Me(r).cur].lock = res.exists]
     /\ SetRouter(r, [Me(r) EXCEPT !.pc = "disc_move", !.fi = 1,
                         !.flock = [created |-> res.created, path |-> Me(r).cur],
                         !.log = Append(@, <<"DISCARD", Me(r).discard_rule>>)])
  /\ UNCHANGED <<cfg, incoming, slock, study, faults>>
  /\ UNCHANGED <<dispatchVars, sideVars>>

\* process_series.push_series_discard: shutil.move of one file
DiscardMove(r) ==
  /\ Me(r).pc = "disc_move"
  /\ LET file == FileAt(Me(r).fileList, Me(r).fi)
         ok == file \in incoming[Me(r).uid]
         nxt == NextFile(Me(r).fi, ~ok)
     IN  /\ incoming' = [incoming EXCEPT ![Me(r).uid] = @ \ {file}]
         /\ folder' = IF ok THEN [folder EXCEPT ![Me(r).cur].files = @ \cup {file}]
                            ELSE folder
         /\ SetRouter(r, [Me(r) EXCEPT
              !.fi = nxt,
              !.pc = IF nxt > 2 * Len(Me(r).fileList) THEN "disc_unlock" ELSE "disc_move",
              !.log = IF ok THEN @ ELSE Append(@, <<"PROCESSING_ERROR", "discarding">>)])
  /\ UNCHANGED <<cfg, slock, study, faults>>
  /\ UNCHANGED <<dispatchVars, sideVars>>

\* process_series.push_series_discard: the MOVE event and lock.free()
DiscardUnlock(r) ==
  /\ Me(r).pc = "disc_unlock"
  /\ LET res == FileLock_free(Me(r).flock.created, folder[Me(r).cur].lock) IN
     /\ folder' = [folder EXCEPT ![Me(r).cur].lock = res.exists]
     /\ SetRouter(r, [Me(r) EXCEPT !.pc = "release",
                         !.flock = [created |-> res.created, path |-> Me(r).cur],
                         !.log = Append(@, <<"MOVE", "discard">>)])
  /\ UNCHANGED <<cfg, incoming, slock, study, faults>>
  /\ UNCHANGED <<dispatchVars, sideVars>>

\* push_series_studylevel: the folder <uid><SEP><rule> is made if absent; the lock path
\* is then built as str / str, and the exception leaves route_series
RouteStudy(r) ==
  /\ Me(r).pc = "study"
  /\ study' = study \cup {<<Me(r).uid, FirstStudy(cfg.rules, Me(r).triggered)>>}
  /\ Leave(r, "exception", <<>>, folder)
  /\ UNCHANGED <<cfg, incoming, faults>>
  /\ UNCHANGED <<dispatchVars, sideVars>>

\* a staging loop that moves the files into the folder of the last target
MoveOperation_last(r) == Me(r).ti = Len(Me(r).selected)

\* a staging loop that always copies
MoveOperation_never(r) == FALSE

\* move_operation of the staging loop: route_series moves iff one rule triggered,
\* process_series moves for the last target
MoveOperation(r) ==
  IF cfg.variant = "route"
  THEN Len(Me(r).triggered) = 1
  ELSE Me(r).ti = Len(Me(r).selected)

\* push_serieslevel_outgoing / push_series_outgoing: the head of the loop over the
\* selected targets, up to os.mkdir(folder_name)
StageNext(r) ==
  /\ Me(r).pc = "stage"
  /\ IF Me(r).ti > Len(Me(r).selected)
     THEN /\ folder' = DropFolderLock(folder, Me(r).flock)
          /\ SetRouter(r, [Me(r) EXCEPT !.pc = AfterStage(r), !.flock = NoLock, !.fi = 1])
          /\ UNCHANGED faults
     ELSE IF Me(r).selected[Me(r).ti].target \notin TargetNames
     THEN /\ SetRouter(r, [Me(r) EXCEPT !.ti = @ + 1,
                              !.log = Append(@, <<"PROCESSING_ERROR", "target">>)])
          /\ UNCHANGED <<folder, faults>>
     ELSE \E mkdirFails \in BOOLEAN :
            /\ mkdirFails => faults < MaxFaults
            /\ faults' = IF mkdirFails THEN faults + 1 ELSE faults
            /\ IF mkdirFails
               THEN /\ folder' = DropFolderLock(folder, Me(r).flock)
                    /\ SetRouter(r, [Me(r) EXCEPT !.pc = AfterStage(r), !.flock = NoLock,
                                        !.fi = 1, !.log = Append(@, <<"PROCESSING_ERROR", "mkdir">>)])
               ELSE /\ HasFresh
                    /\ folder' = [folder EXCEPT ![FreshFolder] =
                                    [NoFolder EXCEPT !.zone = "outgoing"]]
                    /\ SetRouter(r, [Me(r) EXCEPT !.pc = "stage_lock", !.cur = FreshFolder])
  /\ UNCHANGED <<cfg, incoming, slock, study>>
  /\ UNCHANGED <<dispatchVars, sideVars>>

\* lock = FileLock(folder/.lock): the new sentinel is made, then the name lock is
\* rebound and the FileLock of the previous target is destroyed
StageLock(r) ==
  /\ Me(r).pc = "stage_lock"
  /\ LET res == FileLock_init(folder[Me(r).cur].lock, FALSE)
         made == [folder EXCEPT ![Me(r).cur].lock = res.exists]
     IN  /\ folder' = DropFolderLock(made, Me(r).flock)
         /\ SetRouter(r, [Me(r) EXCEPT !.pc = "stage_task",
                             !.flock = [created |-> res.created, path |-> Me(r).cur]])
  /\ UNCHANGED <<cfg, incoming, slock, study, faults>>
  /\ UNCHANGED <<dispatchVars, sideVars>>

\* a staging step that goes on to the payload after a failed write of the task file
StageTask_noContinue(r) ==
  /\ Me(r).pc = "stage_task"
  /\ \E writeFails \in BOOLEAN :
       /\ writeFails => faults < MaxFaults
       /\ faults' = IF writeFails THEN faults + 1 ELSE faults
       /\ LET sel == Me(r).selected[Me(r).ti] IN
          /\ folder' = IF writeFails THEN folder
                        ELSE [folder EXCEPT ![Me(r).cur].task =
                                TaskFile(Me(r).uid, sel.target, sel.rule)]
          /\ SetRouter(r, [Me(r) EXCEPT !.pc = "stage_copy", !.fi = 1,
                              !.log = Append(@, <<"ROUTE", sel.target>>)])
  /\ UNCHANGED <<cfg, incoming, slock, study>>
  /\ UNCHANGED <<dispatchVars, sideVars>>

\* the task file is written, then the ROUTE event is sent; a failed write goes on
\* with the next target
StageTask(r) ==
  /\ Me(r).pc = "stage_task"
  /\ \E writeFails \in BOOLEAN :
       /\ writeFails => faults < MaxFaults
       /\ faults' = IF writeFails THEN faults + 1 ELSE faults
       /\ LET sel == Me(r).selected[Me(r).ti] IN
          IF writeFails
          THEN /\ SetRouter(r, [Me(r) EXCEPT !.pc = "stage", !.ti = @ + 1,
                                   !.log = Append(@, <<"PROCESSING_ERROR", "taskfile">>)])
               /\ UNCHANGED folder
          ELSE /\ folder' = [folder EXCEPT ![Me(r).cur].task =
                               TaskFile(Me(r).uid, sel.target, sel.rule)]
               /\ SetRouter(r, [Me(r) EXCEPT !.pc = "stage_copy", !.fi = 1,
                                   !.log = Append(@, <<"ROUTE", sel.target>>)])
  /\ UNCHANGED <<cfg, incoming, slock, study>>
  /\ UNCHANGED <<dispatchVars, sideVars>>

\* operation(source, target) on one file: shutil.move or shutil.copy
StageCopy(r) ==
  /\ Me(r).pc = "stage_copy"
  /\ LET file == FileAt(Me(r).fileList, Me(r).fi)
         ok == file \in incoming[Me(r).uid]
         nxt == NextFile(Me(r).fi, ~ok)
     IN  /\ incoming' = IF MoveOperation(r)
                        THEN [incoming EXCEPT ![Me(r).uid] = @ \ {file}]
                        ELSE incoming
         /\ folder' = IF ok THEN [folder EXCEPT ![Me(r).cur].files = @ \cup {file}]
                            ELSE folder
         /\ SetRouter(r, [Me(r) EXCEPT
              !.fi = nxt,
              !.pc = IF nxt > 2 * Len(Me(r).fileList) THEN "stage_unlock" ELSE "stage_copy",
              !.log = IF ok THEN @ ELSE Append(@, <<"PROCESSING_ERROR", "pushing">>)])
  /\ UNCHANGED <<cfg, slock, study, faults>>
  /\ UNCHANGED <<dispatchVars, sideVars>>

\* the MOVE event and lock.free() of the folder lock
StageUnlock(r) ==
  /\ Me(r).pc = "stage_unlock"
  /\ LET res == FileLock_free(Me(r).flock.created, folder[Me(r).cur].lock) IN
     /\ folder' = [folder EXCEPT ![Me(r).cur].lock = res.exists]
     /\ SetRouter(r, [Me(r) EXCEPT !.pc = "stage", !.ti = @ + 1,
                         !.flock = [created |-> res.created, path |-> Me(r).cur],
                         !.log = Append(@, <<"MOVE", "outgoing">>)])
  /\ UNCHANGED <<cfg, incoming, slock, study, faults>>
  /\ UNCHANGED <<dispatchVars, sideVars>>

\* push_serieslevel_processing: os.mkdir(processing folder); the lock path is then
\* built as str / str, and the exception leaves route_series
RouteProcessing(r) ==
  /\ Me(r).pc = "proc"
  /\ \E mkdirFails \in BOOLEAN :
       /\ mkdirFails => faults < MaxFaults
       /\ faults' = IF mkdirFails THEN faults + 1 ELSE faults
       /\ IF mkdirFails
          THEN /\ SetRouter(r, [Me(r) EXCEPT !.pc = AfterProc(r), !.fi = 1,
                                   !.log = Append(@, <<"PROCESSING_ERROR", "mkdir">>)])
               /\ UNCHANGED <<slock, folder>>
          ELSE /\ HasFresh
               /\ Leave(r, "exception", <<>>,
                        [folder EXCEPT ![FreshFolder] = [NoFolder EXCEPT !.zone = "processing"]])
  /\ UNCHANGED <<cfg, incoming, study>>
  /\ UNCHANGED <<dispatchVars, sideVars>>

\* push_serieslevel_notification: the webhook is fired, then len(triggered_rules==1)
\* raises TypeError, which leaves route_series
RouteNotification(r) ==
  /\ Me(r).pc = "notif"
  /\ Leave(r, "exception",
           <<<<"WEBHOOK", FirstNotification(cfg.rules, Me(r).triggered)>>>>, folder)
  /\ UNCHANGED <<cfg, incoming, study, faults>>
  /\ UNCHANGED <<dispatchVars, sideVars>>

\* remove_series: os.remove of one file, .tags before .dcm
RouteRemove(r) ==
  /\ Me(r).pc = "remove"
  /\ LET file == RemoveAt(Me(r).fileList, Me(r).fi)
         ok == file \in incoming[Me(r).uid]
         nxt == NextFile(Me(r).fi, ~ok)
     IN  /\ incoming' = [incoming EXCEPT ![Me(r).uid] = @ \ {file}]
         /\ SetRouter(r, [Me(r) EXCEPT
              !.fi = nxt,
              !.pc = IF nxt > 2 * Len(Me(r).fileList) THEN "release" ELSE "remove",
              !.log = IF ok THEN @ ELSE Append(@, <<"PROCESSING_ERROR", "removing">>)])
  /\ UNCHANGED <<cfg, slock, folder, study, faults>>
  /\ UNCHANGED <<dispatchVars, sideVars>>

\* lock.free() at the end of route_series / process_series, and the return
RouteRelease(r) ==
  /\ Me(r).pc = "release"
  /\ LET res == FileLock_free(Me(r).lock, slock[Me(r).uid]) IN
     /\ slock' = [slock EXCEPT ![Me(r).uid] = FileLock_del(res.created, res.exists)]
     /\ SetRouter(r, [Me(r) EXCEPT !.pc = "idle", !.lock = FALSE, !.ret = "done",
                         !.log = IF res.raised
                                 THEN Append(@, <<"PROCESSING_ERROR", "unlock">>) ELSE @])
  /\ UNCHANGED <<cfg, incoming, folder, study, faults>>
  /\ UNCHANGED <<dispatchVars, sideVars>>

Router(r) ==
  \/ RouteEnter(r) \/ RouteLock(r) \/ RouteScan(r) \/ RouteMaster(r)
  \/ RouteDiscard(r) \/ DiscardLock(r) \/ DiscardMove(r) \/ DiscardUnlock(r)
  \/ RouteStudy(r) \/ StageNext(r) \/ StageLock(r) \/ StageTask(r) \/ StageCopy(r)
  \/ StageUnlock(r) \/ RouteProcessing(r) \/ RouteNotification(r) \/ RouteRemove(r)
  \/ RouteRelease(r)

NextRouter == \E r \in Routers : Router(r)

(***************************************************************************)
(* The dispatcher: dispatch(), one tick of the scan of outgoing/.           *)
(***************************************************************************)
\* dispatch.status.is_ready_for_sending: the task descriptor of a folder that has no
\* .lock, no .sending, no .error and a well-formed descriptor, else nothing
is_ready_for_sending(f) ==
  IF /\ folder[f].zone = "outgoing"
     /\ ~folder[f].lock /\ ~folder[f].sending /\ ~folder[f].error
     /\ folder[f].task.present
  THEN folder[f].task
  ELSE NoTask

\* dispatch.status.has_been_send: the sent marker exists in the folder
has_been_send(f) == folder[f].zone = "outgoing" /\ folder[f].sent

IdleDispatcher == [pc |-> "idle", todo |-> {}, cur |-> 0, info |-> NoTask, ret |-> ""]

Job(f, info) == [folder |-> f, series_uid |-> info.series_uid, target_name |-> info.target_name]
NoJob == [folder |-> 0, series_uid |-> "", target_name |-> ""]

Emit(f, ev) == evlog' = [evlog EXCEPT ![f] = Append(@, ev)]

\* success/ and error/ hold entries: the basename of a folder, the timestamp suffix it
\* was given (NoStamp: none), and whether the entry was there before the dispatcher ran
NoStamp == 0
Destinations == {"success", "error"}
Entry(f, stamp, old) == [name |-> f, stamp |-> stamp, old |-> old]
EmptyArchive == [d \in Destinations |-> {}]

\* (destination_folder / source_folder.name).exists()
NameTaken(arch, f, dest) == \E e \in arch[dest] : e.name = f /\ e.stamp = NoStamp

\* a move that replaces the entry of the same name in the destination
place_sent_directory_over(arch, f, dest, t) ==
  [arch EXCEPT ![dest] = {e \in @ : e.name # f} \cup {Entry(f, NoStamp, FALSE)}]

\* _move_sent_directory: the name the folder gets in the destination,
\* <basename>_<timestamp> if <basename> exists there
place_sent_directory(arch, f, dest, t) ==
  [arch EXCEPT ![dest] =
     @ \cup {Entry(f, IF NameTaken(arch, f, dest) THEN t ELSE NoStamp, FALSE)}]

\* the error markers <n>.error of incoming/, with the payload <n> and the lock
\* <n>.error.lock
ErrNames == {"e1", "e2"}
NoErrFile == [marker |-> "none", payload |-> "none", lock |-> FALSE]
IdleSweeper ==
  [pc |-> "idle", todo |-> {}, cur |-> "", lock |-> FALSE, found |-> 0, ret |-> "",
   log |-> <<>>]

\* a move that only removes .sending and leaves the folder where it is
move_sent_directory_stay(fl, f, dest) == [fl EXCEPT ![f].sending = FALSE]

\* _move_sent_directory: shutil.move into the destination, then .sending is unlinked there
move_sent_directory(fl, f, dest) == [fl EXCEPT ![f].zone = dest, ![f].sending = FALSE]

\* a scan that does not look at the termination flag after an entry
AfterEntry_noflag(todo) ==
  IF todo = {} THEN [IdleDispatcher EXCEPT !.ret = "done"]
  ELSE [IdleDispatcher EXCEPT !.pc = "scan", !.todo = todo]

\* the check "if helper.isTerminated(): break" after an entry, and the end of the scan
AfterEntry(todo) ==
  IF terminated \/ todo = {} THEN [IdleDispatcher EXCEPT !.ret = "done"]
  ELSE [IdleDispatcher EXCEPT !.pc = "scan", !.todo = todo]

\* a dispatcher that waits until the clock is past next_retry_at
DelayPassed_strict(info) == now > info.next_retry_at

\* a dispatcher that does not wait for next_retry_at
DelayPassed_always(info) == TRUE

\* the delay test of dispatch(): time.time() >= next_retry_at
DelayPassed(info) == now >= info.next_retry_at

\* a tick that goes on to scan outgoing/ after read_config() has failed
DispatchStart_scan ==
  /\ dsp.pc = "idle"
  /\ IF terminated
     THEN dsp' = [IdleDispatcher EXCEPT !.ret = "terminated"]
     ELSE \E configFails \in BOOLEAN :
            dsp' = [AfterEntry({f \in FolderIds : folder[f].zone = "outgoing"})
                      EXCEPT !.ret = IF configFails THEN "config" ELSE @]
  /\ UNCHANGED <<cfg, folder, queue, wk, now, hist, evlog, terminated>>
  /\ UNCHANGED <<routerVars, sideVars>>

\* dispatch(): isTerminated(), read_config(), os.scandir(outgoing)
DispatchStart ==
  /\ dsp.pc = "idle"
  /\ IF terminated
     THEN dsp' = [IdleDispatcher EXCEPT !.ret = "terminated"]
     ELSE \E configFails \in BOOLEAN :
            IF configFails
            THEN dsp' = [IdleDispatcher EXCEPT !.ret = "config"]
            ELSE dsp' = AfterEntry({f \in FolderIds : folder[f].zone = "outgoing"})
  /\ UNCHANGED <<cfg, folder, queue, wk, now, hist, evlog, terminated>>
  /\ UNCHANGED <<routerVars, sideVars>>

\* one entry of the scan: the eligibility test, or the move of a sent folder to success/
DispatchEntry ==
  /\ dsp.pc = "scan"
  /\ \E f \in dsp.todo :
       LET info == is_ready_for_sending(f)
           rest == dsp.todo \ {f}
       IN  IF ~has_been_send(f) /\ info.present
           THEN /\ dsp' = IF DelayPassed(info)
                          THEN [dsp EXCEPT !.pc = "touch", !.todo = rest, !.cur = f,
                                           !.info = info]
                          ELSE AfterEntry(rest)
                /\ UNCHANGED <<folder, evlog, archive>>
           ELSE IF has_been_send(f)
           THEN /\ folder' = move_sent_directory(folder, f, "success")
                /\ archive' = place_sent_directory(archive, f, "success", now)
                /\ Emit(f, <<"MOVE", 0, "success">>)
                /\ dsp' = AfterEntry(rest)
           ELSE /\ dsp' = AfterEntry(rest)
                /\ UNCHANGED <<folder, evlog, archive>>
  /\ UNCHANGED <<cfg, queue, wk, now, hist, terminated>>
  /\ UNCHANGED <<routerVars, quarantineVars>>

\* a dispatcher that enqueues without creating the .sending sentinel
DispatchTouch_skip ==
  /\ dsp.pc = "touch"
  /\ dsp' = [dsp EXCEPT !.pc = "enqueue"]
  /\ UNCHANGED <<cfg, folder, queue, wk, now, hist, evlog, terminated>>
  /\ UNCHANGED <<routerVars, sideVars>>

\* lock_file.touch(): the .sending sentinel
DispatchTouch ==
  /\ dsp.pc = "touch"
  /\ folder' = [folder EXCEPT ![dsp.cur].sending = TRUE]
  /\ dsp' = [dsp EXCEPT !.pc = "enqueue"]
  /\ UNCHANGED <<cfg, queue, wk, now, hist, evlog, terminated>>
  /\ UNCHANGED <<routerVars, sideVars>>

\* _q.enqueue(execute, target_info, folder, ...)
DispatchEnqueue ==
  /\ dsp.pc = "enqueue"
  /\ queue' = Append(queue, Job(dsp.cur, dsp.info))
  /\ dsp' = AfterEntry(dsp.todo)
  /\ UNCHANGED <<cfg, folder, wk, now, hist, evlog, terminated>>
  /\ UNCHANGED <<routerVars, sideVars>>

\* terminateProcess: helper.triggerTerminate()
Terminate ==
  /\ ~terminated
  /\ terminated' = TRUE
  /\ UNCHANGED <<cfg, folder, dsp, queue, wk, now, hist, evlog>>
  /\ UNCHANGED <<routerVars, sideVars>>

\* time passes
Tick ==
  /\ now < MaxTime
  /\ now' = now + 1
  /\ UNCHANGED <<cfg, folder, dsp, queue, wk, hist, evlog, terminated>>
  /\ UNCHANGED <<routerVars, sideVars>>

(***************************************************************************)
(* The transfer worker: execute(), one job.                                *)
(***************************************************************************)
IdleWorker == [pc |-> "idle", job |-> NoJob]

\* a retry counter whose next_retry_at does not follow the clock
increase_retry_noclock(task, t) ==
  LET new == [task EXCEPT !.retries = @ + 1, !.next_retry_at = cfg.retry_delay] IN
  IF new.retries >= cfg.retry_max
  THEN [increased |-> FALSE, task |-> task]
  ELSE [increased |-> TRUE, task |-> new]

\* a retry counter that allows one attempt more than retry_max
increase_retry_offbyone(task, t) ==
  LET new == [task EXCEPT !.retries = @ + 1, !.next_retry_at = t + cfg.retry_delay] IN
  IF new.retries > cfg.retry_max
  THEN [increased |-> FALSE, task |-> task]
  ELSE [increased |-> TRUE, task |-> new]

\* _increase_retry: the descriptor with retries + 1 and next_retry_at = now + retry_delay;
\* it is written back only while retries stays below retry_max
increase_retry(task, t) ==
  LET new == [task EXCEPT !.retries = @ + 1, !.next_retry_at = t + cfg.retry_delay] IN
  IF new.retries >= cfg.retry_max
  THEN [increased |-> FALSE, task |-> task]
  ELSE [increased |-> TRUE, task |-> new]

\* a worker takes the next job of the queue
WorkerTake(w) ==
  /\ wk[w].pc = "idle"
  /\ queue # <<>>
  /\ wk' = [wk EXCEPT ![w] = [pc |-> "run", job |-> Head(queue)]]
  /\ queue' = Tail(queue)
  /\ UNCHANGED <<cfg, folder, dsp, now, hist, evlog, terminated>>
  /\ UNCHANGED <<routerVars, sideVars>>

\* run(split(command), check=True): the external transfer takes time and exits with 0,
\* leaving its report sent.txt in the folder, or with a failure code
WorkerRun(w) ==
  /\ wk[w].pc = "run"
  /\ now < MaxTime
  /\ now' = now + 1
  /\ LET f == wk[w].job.folder IN
     \E success \in BOOLEAN :
       /\ folder' = IF success /\ folder[f].zone = "outgoing"
                    THEN [folder EXCEPT ![f].sent = TRUE] ELSE folder
       /\ hist' = [hist EXCEPT ![f].attempts = @ + 1,
                               ![f].fails = IF success THEN @ ELSE @ + 1]
       /\ wk' = [wk EXCEPT ![w].pc = IF success THEN "ok" ELSE "failed"]
  /\ UNCHANGED <<cfg, dsp, queue, evlog, terminated>>
  /\ UNCHANGED <<routerVars, sideVars>>

\* the transfer succeeded: the .dcm files of the folder are counted, DISPATCH is sent
WorkerOk(w) ==
  /\ wk[w].pc = "ok"
  /\ LET f == wk[w].job.folder
         file_count == IF folder[f].zone = "outgoing"
                       THEN Cardinality({x \in folder[f].files : x[2] = "dcm"})
                       ELSE 0
     IN  Emit(f, <<"DISPATCH", file_count, wk[w].job.target_name>>)
  /\ wk' = [wk EXCEPT ![w] = IdleWorker]
  /\ UNCHANGED <<cfg, folder, dsp, queue, now, hist, terminated>>
  /\ UNCHANGED <<routerVars, sideVars>>

\* a failure handler that goes on to clear .sending without persisting the counter
WorkerFailed_nowrite(w) ==
  /\ wk[w].pc = "failed"
  /\ LET f == wk[w].job.folder
         res == increase_retry(folder[f].task, now)
     IN  /\ Emit(f, <<"ERROR", 0, wk[w].job.target_name>>)
         /\ wk' = [wk EXCEPT ![w].pc = IF res.increased THEN "unlink" ELSE "suspend"]
  /\ UNCHANGED <<cfg, folder, dsp, queue, now, hist, terminated>>
  /\ UNCHANGED <<routerVars, sideVars>>

\* the transfer failed: the ERROR event, then _increase_retry
WorkerFailed(w) ==
  /\ wk[w].pc = "failed"
  /\ LET f == wk[w].job.folder
         res == increase_retry(folder[f].task, now)
     IN  /\ folder' = [folder EXCEPT ![f].task = res.task]
         /\ Emit(f, <<"ERROR", 0, wk[w].job.target_name>>)
         /\ wk' = [wk EXCEPT ![w].pc = IF res.increased THEN "unlink" ELSE "suspend"]
  /\ UNCHANGED <<cfg, dsp, queue, now, hist, terminated>>
  /\ UNCHANGED <<routerVars, sideVars>>

\* a worker that returns after a failure and leaves .sending in place
WorkerUnlink_keep(w) ==
  /\ wk[w].pc = "unlink"
  /\ wk' = [wk EXCEPT ![w] = IdleWorker]
  /\ UNCHANGED <<cfg, folder, dsp, queue, now, hist, evlog, terminated>>
  /\ UNCHANGED <<routerVars, sideVars>>

\* retries are left: (source_folder / ".sending").unlink()
WorkerUnlink(w) ==
  /\ wk[w].pc = "unlink"
  /\ folder' = [folder EXCEPT ![wk[w].job.folder].sending = FALSE]
  /\ wk' = [wk EXCEPT ![w] = IdleWorker]
  /\ UNCHANGED <<cfg, dsp, queue, now, hist, evlog, terminated>>
  /\ UNCHANGED <<routerVars, sideVars>>

\* max retries reached: the SUSPEND event
WorkerSuspend(w) ==
  /\ wk[w].pc = "suspend"
  /\ Emit(wk[w].job.folder, <<"SUSPEND", 0, wk[w].job.target_name>>)
  /\ wk' = [wk EXCEPT ![w].pc = "move"]
  /\ UNCHANGED <<cfg, folder, dsp, queue, now, hist, terminated>>
  /\ UNCHANGED <<routerVars, sideVars>>

\* _move_sent_directory(source_folder, error_folder), then the MOVE event
WorkerMove(w) ==
  /\ wk[w].pc = "move"
  /\ folder' = move_sent_directory(folder, wk[w].job.folder, "error")
  /\ archive' = place_sent_directory(archive, wk[w].job.folder, "error", now)
  /\ Emit(wk[w].job.folder, <<"MOVE", 0, "error">>)
  /\ wk' = [wk EXCEPT ![w] = IdleWorker]
  /\ UNCHANGED <<cfg, dsp, queue, now, hist, terminated>>
  /\ UNCHANGED <<routerVars, quarantineVars>>

Worker(w) ==
  \/ WorkerTake(w) \/ WorkerRun(w) \/ WorkerOk(w) \/ WorkerFailed(w)
  \/ WorkerUnlink(w) \/ WorkerSuspend(w) \/ WorkerMove(w)

Dispatcher == DispatchStart \/ DispatchEntry \/ DispatchTouch \/ DispatchEnqueue

NextDispatch == Dispatcher \/ (\E w \in Workers : Worker(w)) \/ Tick \/ Terminate

(***************************************************************************)
(* Initial states and specifications.                                      *)
(***************************************************************************)
Config(v, rules, ok, rmax, rdelay) ==
  [variant |-> v, rules |-> rules, tagsOk |-> ok, retry_max |-> rmax, retry_delay |-> rdelay]

QuietDispatch ==
  /\ dsp = IdleDispatcher
  /\ queue = <<>>
  /\ wk = [w \in Workers |-> IdleWorker]
  /\ now = 1
  /\ hist = [f \in FolderIds |-> [attempts |-> 0, fails |-> 0]]
  /\ evlog = [f \in FolderIds |-> <<>>]
  /\ terminated = FALSE
  /\ errfile = [n \in ErrNames |-> NoErrFile]
  /\ sweeper = IdleSweeper
  /\ archive = EmptyArchive

QuietRouter ==
  /\ slock = [u \in Series |-> FALSE]
  /\ study = {}
  /\ rt = [r \in Routers |-> IdleRouter]
  /\ faults = 0

\* a series has arrived in incoming/, nothing is staged
InitRouter ==
  /\ cfg \in {Config(v, rules, ok, 1, 0) :
                v \in {"route", "process"}, rules \in RuleSets, ok \in BOOLEAN}
  /\ incoming = [u \in Series |-> SeriesFiles]
  /\ folder = [f \in FolderIds |-> NoFolder]
  /\ QuietRouter
  /\ QuietDispatch

\* the folder the router leaves in outgoing/ for a series routed to one target
StagedFolder ==
  [NoFolder EXCEPT !.zone = "outgoing", !.task = TaskFile("S1", "t1", "ra"),
                   !.files = SeriesFiles]

\* the router has staged NumStaged folders in outgoing/
InitDispatch ==
  /\ cfg \in {Config("route", <<>>, TRUE, rmax, rdelay) :
                rmax \in 1..MaxRetryMax, rdelay \in 0..MaxRetryDelay}
  /\ incoming = [u \in Series |-> {}]
  /\ folder = [f \in FolderIds |-> IF f <= NumStaged THEN StagedFolder ELSE NoFolder]
  /\ QuietRouter
  /\ QuietDispatch

SpecRouter == InitRouter /\ [][NextRouter]_vars

SpecDispatch == InitDispatch /\ [][NextDispatch]_vars

\* rule sets that take the router through each of its branches
StageRuleSets ==
  { <<Rule("ra", FALSE, "T", "route", "series", "t1")>>,
    <<Rule("ra", FALSE, "T", "route", "series", "t1"),
      Rule("rb", FALSE, "T", "route", "series", "t1")>>,
    <<Rule("ra", FALSE, "F", "route", "series", "t1")>>,
    <<Rule("rn", FALSE, "T", "notification", "series", "")>>,
    <<Rule("rp", FALSE, "T", "process", "series", "")>>,
    <<Rule("rs", FALSE, "T", "route", "study", "t1")>> }

\* the router instances and the dispatcher share outgoing/
Init ==
  /\ cfg \in {Config(v, rules, TRUE, 1, 0) :
                v \in {"route", "process"}, rules \in StageRuleSets}
  /\ incoming = [u \in Series |-> SeriesFiles]
  /\ folder = [f \in FolderIds |-> NoFolder]
  /\ slock = [u \in Series |-> FALSE]
  /\ study = {}
  /\ rt = [r \in Routers |-> IdleRouter]
  /\ faults = MaxFaults
  /\ QuietDispatch

Next == NextRouter \/ Dispatcher

Spec == Init /\ [][Next]_vars

(***************************************************************************)
(* Properties.                                                             *)
(***************************************************************************)
\* router r is between the acquisition of the series lock and its release
Holds(r) == rt[r].pc \notin {"idle", "create"}

\* the transfer jobs of folder f that are enqueued or executing
Outstanding(f) ==
  Cardinality({i \in 1..Len(queue) : queue[i].folder = f})
    + Cardinality({w \in Workers : wk[w].pc # "idle" /\ wk[w].job.folder = f})

\* the dispatcher is between the eligibility test of f and the enqueue of its job
Claiming(f) == dsp.pc \in {"touch", "enqueue"} /\ dsp.cur = f

\* the dispatcher creates the .sending sentinel of f in this step
CreatesSending(f) == ~folder[f].sending /\ folder'[f].sending

\* a job for f is put on the queue in this step
Enqueues(f) == Len(queue') = Len(queue) + 1 /\ queue'[Len(queue')].folder = f

\* C1: lock safety (I1): for each series UID at most one router is between the
\* acquisition of incoming/<uid>.lock and its release.
C1_LockSafety ==
  \A u \in Series : Cardinality({r \in Routers : Holds(r) /\ rt[r].uid = u}) <= 1

\* C2: constructing a lock on a path whose sentinel exists fails, and the sentinel
\* stays in place, also after the failed constructor is destroyed.
C2_ExclusiveCreate ==
  [][\A r \in Routers :
       (rt[r].pc = "create" /\ rt'[r].pc # "create" /\ slock[rt[r].uid])
         => (rt'[r].pc = "idle" /\ slock'[rt[r].uid])]_vars

\* C3: whenever a router that acquired incoming/<uid>.lock finishes, by return, by
\* exception or by normal completion, the sentinel does not exist afterwards.
C3_LockReleasedOnExit ==
  [][\A r \in Routers :
       (Holds(r) /\ rt'[r].pc = "idle") => ~slock'[rt[r].uid]]_vars

\* C3 witness: a call that acquired the lock was left by an exception, another one
\* by normal completion, and the sentinel is gone.
C3_Witness ==
  /\ \E r \in Routers : rt[r].pc = "idle" /\ rt[r].ret = "exception" /\ ~slock[rt[r].uid]
  /\ \E r \in Routers : rt[r].pc = "idle" /\ rt[r].ret = "done" /\ ~slock[rt[r].uid]

\* C4: dispatch exclusivity (I2): at most one transfer job of an outgoing folder is
\* enqueued or executing, and the dispatcher claims a folder only when no job of it
\* is outstanding.
C4_DispatchExclusive ==
  \A f \in FolderIds :
    /\ Outstanding(f) <= 1
    /\ Claiming(f) => Outstanding(f) = 0

\* C4 witness: a folder whose earlier job has finished has a second job on the queue.
C4_Witness ==
  \E f \in FolderIds :
    /\ hist[f].attempts >= 1
    /\ \E i \in 1..Len(queue) : queue[i].folder = f
    /\ folder[f].sending

\* the folder can be claimed: a directory of outgoing/ without .sending, sent marker
\* and .error, with a descriptor, whose next_retry_at has passed
Eligible(f) ==
  /\ folder[f].zone = "outgoing"
  /\ ~folder[f].sending
  /\ ~folder[f].sent
  /\ ~folder[f].error
  /\ folder[f].task.present
  /\ now >= folder[f].task.next_retry_at

\* C5: eligibility purity (I3): the dispatcher creates .sending only in an eligible
\* folder, and enqueues a job only for the folder it has just claimed that way.
C5_EligibilityPurity ==
  [][\A f \in FolderIds :
       /\ CreatesSending(f) => Eligible(f)
       /\ Enqueues(f) =>
            /\ folder[f].zone = "outgoing" /\ folder[f].sending
            /\ ~folder[f].sent /\ ~folder[f].error
            /\ folder[f].task.present
            /\ now >= folder[f].task.next_retry_at]_vars

\* C5 witness: a folder that failed before is claimed again under a retry delay.
C5_Witness ==
  /\ dsp.pc = "enqueue"
  /\ cfg.retry_delay >= 1
  /\ folder[dsp.cur].sending
  /\ folder[dsp.cur].task.retries >= 1

\* C6: the dispatcher never claims a folder that carries the router's .lock, and
\* every claimed folder contains all file pairs of the series.
C6_StagingComplete ==
  \A f \in FolderIds :
    (Claiming(f) \/ folder[f].sending)
      => (~folder[f].lock /\ folder[f].files = SeriesFiles)

\* the descriptor has every field of the task file
Complete(task) ==
  /\ task.present
  /\ task.target_ip # ""
  /\ task.target_port # 0
  /\ task.target_aet_target # ""
  /\ task.target_aet_source # ""
  /\ task.target_name \in TargetNames
  /\ task.applied_rule # ""
  /\ task.series_uid \in Series

\* C7: an outgoing folder that contains payload files, locked or not, contains its
\* complete task descriptor: the descriptor is written before the payload.
C7_DescriptorBeforePayload ==
  \A f \in FolderIds :
    (folder[f].zone = "outgoing" /\ folder[f].files # {}) => Complete(folder[f].task)

\* C7 witness: an unlocked outgoing folder with the whole series and its descriptor,
\* next to a folder whose descriptor could not be written.
C7_Witness ==
  /\ \E f \in FolderIds :
       /\ folder[f].zone = "outgoing" /\ ~folder[f].lock
       /\ folder[f].files = SeriesFiles /\ Complete(folder[f].task)
  /\ \E g \in FolderIds :
       folder[g].zone = "outgoing" /\ ~folder[g].lock /\ ~folder[g].task.present

\* worker w finishes the retry bookkeeping of a failed attempt in this step
Bookkeeps(w) == wk[w].pc = "failed" /\ wk'[w].pc # "failed"

AllFailed(f) == hist[f].attempts >= 1 /\ hist[f].attempts = hist[f].fails

\* no job of f is outstanding and the dispatcher is not claiming it
Settled(f) == Outstanding(f) = 0 /\ ~Claiming(f)

\* the SUSPEND event of f precedes its MOVE event
SuspendBeforeMove(f) ==
  \A i \in 1..Len(evlog[f]) :
    evlog[f][i][1] = "MOVE" =>
      \E j \in 1..(i - 1) : evlog[f][j][1] = "SUSPEND"

Suspended(f) == \E i \in 1..Len(evlog[f]) : evlog[f][i][1] = "SUSPEND"

\* C10: terminal folder (I5): once a folder is suspended, no step creates .sending
\* in it or enqueues a job for it.
C10_TerminalFolder ==
  [][\A f \in FolderIds :
       Suspended(f) => (~CreatesSending(f) /\ ~Enqueues(f))]_vars

\* C10 witness: a dispatcher tick examines the other folders while a suspended
\* folder lies in error/ and its entry is still in the scan.
C10_Witness ==
  \E f \in FolderIds :
    /\ Suspended(f)
    /\ folder[f].zone = "error"
    /\ dsp.pc = "scan"
    /\ f \in dsp.todo

\* the dispatcher examines the entry of f in this step
Examines(f) ==
  /\ dsp.pc = "scan"
  /\ f \in dsp.todo
  /\ IF dsp'.pc = "touch" THEN dsp'.cur = f
     ELSE \/ dsp'.pc = "scan" /\ dsp'.todo = dsp.todo \ {f}
          \/ dsp'.pc = "idle" /\ dsp.todo = {f}

\* an attempt on f has failed below retry_max and its .sending has been removed
AfterFailure(f) ==
  /\ folder[f].zone = "outgoing"
  /\ ~folder[f].lock /\ ~folder[f].sending /\ ~folder[f].sent /\ ~folder[f].error
  /\ folder[f].task.present
  /\ folder[f].task.retries >= 1

\* C11: after a failed attempt that leaves retries below retry_max, a tick that
\* examines the folder claims it if and only if its clock has reached the persisted
\* next_retry_at, and .sending is never created in it earlier than that.
C11_RetryDelay ==
  [][\A f \in FolderIds :
       /\ (Examines(f) /\ AfterFailure(f)) =>
            ((dsp'.pc = "touch" /\ dsp'.cur = f) <=> now >= folder[f].task.next_retry_at)
       /\ (CreatesSending(f) /\ folder[f].task.retries >= 1) =>
            now >= folder[f].task.next_retry_at]_vars

\* C11 witness: under a retry delay a folder that failed before is claimed by a tick
\* running exactly at its next_retry_at.
C11_Witness ==
  /\ dsp.pc = "touch"
  /\ cfg.retry_delay >= 1
  /\ folder[dsp.cur].task.retries >= 1
  /\ ~folder[dsp.cur].sending
  /\ now = folder[dsp.cur].task.next_retry_at

Returns(w) == wk[w].pc # "idle" /\ wk'[w].pc = "idle"

\* C13: when the transfer exits with code 0, execute() has emitted DISPATCH, moved the
\* folder from outgoing/ to success/ and removed .sending by the time it returns.
C13_SuccessMove ==
  [][\A w \in Workers :
       (wk[w].pc = "ok" /\ Returns(w)) =>
         LET f == wk[w].job.folder IN
         /\ \E i \in 1..Len(evlog'[f]) : evlog'[f][i][1] = "DISPATCH"
         /\ folder'[f].zone = "success"
         /\ ~folder'[f].sending]_vars

(***************************************************************************)
(* Progress of the dispatcher: the service keeps running, the timer keeps  *)
(* firing, the workers keep working and the clock advances.                *)
(***************************************************************************)
\* the clock value that the attempts and the retry delays of n staged folders need
Horizon(n, rmax, rdelay) == 1 + n * (rmax + (rmax - 1) * rdelay)

\* up to NumStaged staged folders under retry settings whose attempts fit into the clock
InitLive ==
  /\ cfg \in {Config("route", <<>>, TRUE, rmax, rdelay) :
                rmax \in 1..MaxRetryMax, rdelay \in 0..MaxRetryDelay}
  /\ incoming = [u \in Series |-> {}]
  /\ \E n \in 1..NumStaged :
       /\ Horizon(n, cfg.retry_max, cfg.retry_delay) <= MaxTime
       /\ folder = [f \in FolderIds |-> IF f <= n THEN StagedFolder ELSE NoFolder]
  /\ QuietRouter
  /\ QuietDispatch

\* the clock advances while a folder waits for its next_retry_at
LiveTick ==
  /\ \E f \in FolderIds :
       /\ folder[f].zone = "outgoing" /\ ~folder[f].sending
       /\ now < folder[f].task.next_retry_at
  /\ Tick

\* a tick whose read_config() succeeds
GoodStart == DispatchStart /\ dsp'.ret # "config"

NextLive == Dispatcher \/ (\E w \in Workers : Worker(w)) \/ LiveTick

FairLive ==
  /\ WF_vars(GoodStart)
  /\ WF_vars(DispatchEntry)
  /\ WF_vars(DispatchTouch)
  /\ WF_vars(DispatchEnqueue)
  /\ \A w \in Workers : WF_vars(Worker(w))
  /\ WF_vars(LiveTick)

SpecLive == InitLive /\ [][NextLive]_vars /\ FairLive

\* the folder has left outgoing/ for the zone its attempts call for
Left(f) ==
  \/ folder[f].zone = "success" /\ hist[f].attempts > hist[f].fails
  \/ /\ folder[f].zone = "error"
     /\ hist[f].attempts = hist[f].fails /\ hist[f].fails = cfg.retry_max

\* C14: with the timer, the workers and the clock scheduled fairly, every folder
\* staged and unlocked in outgoing/ eventually leaves it for good: for success/
\* after an attempt that succeeded, for error/ after retry_max failed attempts.
C14_EventuallyLeaves ==
  \A f \in FolderIds :
    [](folder[f].zone = "outgoing" /\ ~folder[f].lock => <>[]Left(f))

\* C14 witness: one folder has reached success/ after a failed and a successful
\* attempt, another one error/.
C14_Witness ==
  \E f, g \in FolderIds :
    /\ folder[f].zone = "success" /\ hist[f].fails >= 1
    /\ folder[g].zone = "error"

(***************************************************************************)
(* A router process that dies after it has created the series lock: its    *)
(* frame is lost with no destructor run, the files and sentinels stay as   *)
(* they are, and the service starts the next call from scratch.            *)
(***************************************************************************)
RouterCrash(r) ==
  /\ Holds(r)
  /\ SetRouter(r, [IdleRouter EXCEPT !.ret = "crashed"])
  /\ UNCHANGED <<cfg, incoming, slock, folder, study, faults>>
  /\ UNCHANGED <<dispatchVars, sideVars>>

\* a series has arrived in incoming/ and no I/O operation fails
InitCrash ==
  /\ cfg \in {Config(v, rules, ok, 1, 0) :
                v \in {"route", "process"}, rules \in RuleSets, ok \in BOOLEAN}
  /\ incoming = [u \in Series |-> SeriesFiles]
  /\ folder = [f \in FolderIds |-> NoFolder]
  /\ slock = [u \in Series |-> FALSE]
  /\ study = {}
  /\ rt = [r \in Routers |-> IdleRouter]
  /\ faults = MaxFaults
  /\ QuietDispatch

NextCrash == NextRouter \/ (\E r \in Routers : RouterCrash(r))

\* the router timer keeps calling and every call that is not killed runs on
FairCrash == \A r \in Routers : WF_vars(Router(r))

SpecCrash == InitCrash /\ [][NextCrash]_vars /\ FairCrash

\* one triggered series-level route rule with a configured target, readable tags
GoodRoute ==
  /\ cfg.tagsOk
  /\ cfg.rules = <<Rule("ra", FALSE, "T", "route", "series", "t1")>>

\* C15: router crash safety (I6): whatever the point at which a router dies, the
\* lock sentinel of the series does not stay forever, and a series with a triggered
\* route rule eventually leaves incoming/.
C15_RouterCrashProgress ==
  \A u \in Series :
    /\ [](slock[u] => <>~slock[u])
    /\ [](GoodRoute => <>(incoming[u] = {}))

(***************************************************************************)
(* The dispatcher dies between the creation of .sending and the enqueue,   *)
(* or a queue worker dies in a job: the frame is lost, the folders and     *)
(* sentinels stay as they are, a job in execution is lost with its worker, *)
(* and the restarted process starts from scratch.                          *)
(***************************************************************************)
DispatcherCrash ==
  /\ dsp.pc = "enqueue"
  /\ dsp' = [IdleDispatcher EXCEPT !.ret = "crashed"]
  /\ UNCHANGED <<cfg, folder, queue, wk, now, hist, evlog, terminated>>
  /\ UNCHANGED <<routerVars, sideVars>>

WorkerCrash(w) ==
  /\ wk[w].pc # "idle"
  /\ wk' = [wk EXCEPT ![w] = IdleWorker]
  /\ UNCHANGED <<cfg, folder, dsp, queue, now, hist, evlog, terminated>>
  /\ UNCHANGED <<routerVars, sideVars>>

NextDispatchCrash == NextLive \/ DispatcherCrash \/ (\E w \in Workers : WorkerCrash(w))

SpecDispatchCrash == InitLive /\ [][NextDispatchCrash]_vars /\ FairLive

\* f is claimed in outgoing/ while no job of it exists and no tick is claiming it
Orphaned(f) ==
  /\ folder[f].zone = "outgoing" /\ folder[f].sending
  /\ Outstanding(f) = 0 /\ ~Claiming(f)

\* C16: dispatch crash safety (I6): a folder left claimed by a dispatcher or a worker
\* that died is eventually dispatched again or moved to success/ or error/.
C16_DispatchCrashProgress ==
  \A f \in FolderIds :
    [](Orphaned(f) =>
         <>(Outstanding(f) > 0 \/ folder[f].zone \in {"success", "error"}))

\* the number of ROUTE events for target t in the log of the run of r
Routed(r, t) ==
  Cardinality({i \in 1..Len(rt[r].log) : rt[r].log[i] = <<"ROUTE", t>>})

\* the targets named by the triggered series-level ROUTE rules of the run of r
NamedTargets(r) ==
  {RuleNamed(cfg.rules, rt[r].triggered[i]).target :
     i \in {j \in 1..Len(rt[r].triggered) :
              /\ RuleNamed(cfg.rules, rt[r].triggered[j]).action = "route"
              /\ RuleNamed(cfg.rules, rt[r].triggered[j]).trigger = "series"}} \ {""}

\* the run of r has gone through the whole staging loop
Staged(r) ==
  \/ rt[r].pc \in {"proc", "notif", "remove", "release"}
  \/ rt[r].pc = "idle" /\ rt[r].ret = "done"

\* the outgoing folders staged for target t
FoldersFor(t) ==
  {f \in FolderIds : folder[f].zone = "outgoing" /\ folder[f].task.target_name = t}

\* C17: target de-duplication (I7): a run of route_series selects each target named
\* by its triggered series-level ROUTE rules once, stages at most one folder for it,
\* and, when nothing fails, exactly one for every configured one.
C17_TargetDedup ==
  \A r \in Routers :
    /\ \A i, j \in 1..Len(rt[r].selected) :
         rt[r].selected[i].target = rt[r].selected[j].target => i = j
    /\ (cfg.variant = "route" /\ rt[r].selected # <<>>) =>
         {rt[r].selected[i].target : i \in 1..Len(rt[r].selected)} = NamedTargets(r)
    /\ \A t \in TargetNames : Routed(r, t) <= 1
    /\ (Staged(r) /\ faults = 0) =>
         \A i \in 1..Len(rt[r].selected) :
           rt[r].selected[i].target \in TargetNames => Routed(r, rt[r].selected[i].target) = 1
    /\ (Staged(r) /\ faults = 0 /\ \A o \in Routers \ {r} : rt[o] = IdleRouter) =>
         \A i \in 1..Len(rt[r].selected) :
           rt[r].selected[i].target \in TargetNames =>
             Cardinality(FoldersFor(rt[r].selected[i].target)) = 1

\* C17 witness: two triggered rules name the same target, the run is complete and
\* outgoing/ holds one folder.
C17_Witness ==
  \E r \in Routers :
    /\ cfg.variant = "route"
    /\ Len(rt[r].triggered) = 2
    /\ NamedTargets(r) = {"t1"}
    /\ rt[r].pc = "idle" /\ rt[r].ret = "done"
    /\ Cardinality(FoldersFor("t1")) = 1
    /\ Cardinality({f \in FolderIds : folder[f].zone = "outgoing"}) = 1

\* the zones a router stages folders in
StagedZones == {"outgoing", "processing", "study", "discard"}

\* C18: file conservation (I8): every payload and sidecar file of the series is in
\* incoming/ or in at least one staged folder, also in runs in which the staging
\* of some target fails.
C18_FileConservation ==
  \A u \in Series : \A file \in SeriesFiles :
    \/ file \in incoming[u]
    \/ \E f \in FolderIds : folder[f].zone \in StagedZones /\ file \in folder[f].files

\* the run of r is complete, no other router has run and no I/O operation failed
AloneDone(r) ==
  /\ rt[r].pc = "idle" /\ rt[r].ret = "done"
  /\ \A o \in Routers \ {r} : rt[o] = IdleRouter
  /\ faults = 0

\* exactly one rule of the configuration triggers, a series-level ROUTE rule with a
\* configured target
SingleRoute ==
  LET names == get_triggered_rules(cfg.rules).triggered IN
  /\ Len(names) = 1
  /\ get_triggered_rules(cfg.rules).discard_rule = ""
  /\ RuleNamed(cfg.rules, names[1]).action = "route"
  /\ RuleNamed(cfg.rules, names[1]).trigger = "series"
  /\ RuleNamed(cfg.rules, names[1]).target \in TargetNames

\* C19: single-rule route: after a run with exactly one triggered rule, a series-level
\* ROUTE rule with a configured target, there is exactly one outgoing folder, it holds
\* every file pair of the series and a descriptor naming the series and the target,
\* incoming/ holds no file of the series and no other folder was created.
C19_SingleRoute ==
  \A r \in Routers :
    (AloneDone(r) /\ SingleRoute) =>
      LET rule == RuleNamed(cfg.rules, get_triggered_rules(cfg.rules).triggered[1]) IN
      /\ incoming[rt[r].uid] = {}
      /\ \A f \in FolderIds : folder[f].zone \in {"none", "outgoing"}
      /\ \E f \in FolderIds :
           /\ \A g \in FolderIds : folder[g].zone = "outgoing" <=> g = f
           /\ folder[f].files = SeriesFiles
           /\ ~folder[f].lock
           /\ Complete(folder[f].task)
           /\ folder[f].task.series_uid = rt[r].uid
           /\ folder[f].task.target_name = rule.target
           /\ folder[f].task.applied_rule = rule.name
           /\ folder[f].task.retries = 0

\* C19 witness: such a run of route_series is complete and incoming/ is empty.
C19_Witness ==
  \E r \in Routers :
    /\ AloneDone(r) /\ SingleRoute
    /\ cfg.variant = "route"
    /\ incoming[rt[r].uid] = {}
    /\ Cardinality({f \in FolderIds : folder[f].zone = "outgoing"}) = 1

\* N >= 2 rules of the configuration trigger, all of them series-level ROUTE rules
\* with distinct configured targets, and route_series is the router
FanOut ==
  LET names == get_triggered_rules(cfg.rules).triggered IN
  /\ cfg.variant = "route"
  /\ Len(names) >= 2
  /\ get_triggered_rules(cfg.rules).discard_rule = ""
  /\ \A i \in 1..Len(names) :
       /\ RuleNamed(cfg.rules, names[i]).action = "route"
       /\ RuleNamed(cfg.rules, names[i]).trigger = "series"
       /\ RuleNamed(cfg.rules, names[i]).target \in TargetNames
  /\ \A i, j \in 1..Len(names) :
       RuleNamed(cfg.rules, names[i]).target = RuleNamed(cfg.rules, names[j]).target => i = j

\* the targets of the triggered rules of the configuration
FanOutTargets ==
  LET names == get_triggered_rules(cfg.rules).triggered IN
  {RuleNamed(cfg.rules, names[i]).target : i \in 1..Len(names)}

\* an unlocked outgoing folder for target t holds a full copy of the series
FullCopyFor(t) ==
  \E f \in FolderIds :
    /\ folder[f].zone = "outgoing" /\ ~folder[f].lock
    /\ folder[f].files = SeriesFiles
    /\ Complete(folder[f].task) /\ folder[f].task.target_name = t

\* C20: multi-rule fan-out: a file of the series leaves incoming/ only when every
\* target has its folder with a full copy, and after the run there are N outgoing
\* folders, one per target, each with every file pair, and incoming/ is empty.
C20_FanOut ==
  /\ [][\A u \in Series :
          (FanOut /\ faults = 0 /\ incoming'[u] # incoming[u]) =>
            \A t \in FanOutTargets : FullCopyFor(t)]_vars
  /\ [](\A r \in Routers :
          (FanOut /\ AloneDone(r)) =>
            /\ incoming[rt[r].uid] = {}
            /\ \A t \in FanOutTargets : FullCopyFor(t)
            /\ Cardinality({f \in FolderIds : folder[f].zone # "none"})
                 = Cardinality(FanOutTargets)
            /\ \A f \in FolderIds : folder[f].zone \in {"none", "outgoing"})

\* C20 witness: the fan-out run is complete with two full folders and incoming/ empty.
C20_Witness ==
  \E r \in Routers :
    /\ FanOut /\ AloneDone(r)
    /\ Cardinality(FanOutTargets) = 2
    /\ \A t \in FanOutTargets : FullCopyFor(t)
    /\ incoming[rt[r].uid] = {}

\* the call of r has ended after it had read the tags, no other router has run and no
\* I/O operation failed
AloneEnded(r) ==
  /\ rt[r].pc = "idle" /\ rt[r].ret \in {"done", "exception"}
  /\ cfg.tagsOk
  /\ \A o \in Routers \ {r} : rt[o] = IdleRouter
  /\ faults = 0

\* no enabled rule triggers or a triggered rule has action DISCARD
DiscardDisposition ==
  \/ Len(get_triggered_rules(cfg.rules).triggered) = 0
  \/ get_triggered_rules(cfg.rules).discard_rule # ""

\* C21: disposition: route_series discards a series if and only if no enabled rule
\* triggered or a triggered rule has action DISCARD; then no outgoing, processing or
\* study-level folder exists for the series, exactly one discard folder has received
\* all its file pairs, and the DISCARD event names the discard rule that won.
C21_Disposition ==
  \A r \in Routers :
    (cfg.variant = "route" /\ AloneEnded(r)) =>
      IF DiscardDisposition
      THEN /\ \A f \in FolderIds : folder[f].zone \in {"none", "discard"}
           /\ study = {}
           /\ Cardinality({f \in FolderIds : folder[f].zone = "discard"}) = 1
           /\ \A f \in FolderIds : folder[f].zone = "discard" => folder[f].files = SeriesFiles
           /\ incoming[rt[r].uid] = {}
           /\ \E i \in 1..Len(rt[r].log) :
                rt[r].log[i] = <<"DISCARD", get_triggered_rules(cfg.rules).discard_rule>>
      ELSE \A f \in FolderIds : folder[f].zone # "discard"

(***************************************************************************)
(* Rule evaluation on every configuration of up to MaxRules rules: each    *)
(* rule is enabled or disabled, its expression is true, false or invalid,  *)
(* and it routes to a target, discards or notifies; the configurations of  *)
(* RuleSets are among them.  One router instance runs with no I/O failure, *)
(* so that its result is a function of the configuration.                  *)
(***************************************************************************)
RuleNames == <<"ra", "rb", "rc", "rd">>

RuleKinds ==
  [disabled : BOOLEAN, expr : {"T", "F", "ERR"},
   act : {<<"route", "t1">>, <<"route", "t2">>, <<"discard", "">>, <<"notification", "">>}]

\* the configurations of n rules, named in configuration order
RuleLists(n) ==
  {[i \in 1..n |-> Rule(RuleNames[i], k[i].disabled, k[i].expr, k[i].act[1], "series",
                        k[i].act[2])] : k \in [1..n -> RuleKinds]}

InitRules ==
  /\ cfg \in {Config(v, rules, TRUE, 1, 0) :
                v \in {"route", "process"},
                rules \in RuleSets \cup UNION {RuleLists(n) : n \in 1..MaxRules}}
  /\ incoming = [u \in Series |-> SeriesFiles]
  /\ folder = [f \in FolderIds |-> NoFolder]
  /\ slock = [u \in Series |-> FALSE]
  /\ study = {}
  /\ rt = [r \in Routers |-> IdleRouter]
  /\ faults = MaxFaults
  /\ QuietDispatch

\* the service runs one router instance
OneRouter == {"r1"}

NextRules == \E r \in OneRouter : Router(r)

SpecRules == InitRules /\ [][NextRules]_vars

\* the configuration without its i-th rule
Without(rules, i) == SubSeq(rules, 1, i - 1) \o SubSeq(rules, i + 1, Len(rules))

\* the run of r has evaluated the rules
Evaluated(r) == \E k \in 1..Len(rt[r].log) : rt[r].log[k][1] = "REGISTERED"

\* the number of events ev in the log of the run of r
Logged(r, ev) == Cardinality({k \in 1..Len(rt[r].log) : rt[r].log[k] = ev})

\* the i-th rule is reached by the evaluation loop of the router in use: it is
\* enabled and, in route_series, no DISCARD rule before it has triggered
Reached(rules, i) ==
  /\ ~rules[i].disabled
  /\ cfg.variant = "route" =>
       \A j \in 1..(i - 1) :
         ~(~rules[j].disabled /\ rules[j].expr = "T" /\ rules[j].action = "discard")

\* what the run of r has decided is what the configuration rules calls for
DecidedAs(r, rules) ==
  IF cfg.variant = "route"
  THEN LET res == get_triggered_rules(rules)
           staged == /\ Len(res.triggered) > 0 /\ res.discard_rule = ""
                     /\ ~HasStudy(rules, res.triggered)
       IN  /\ rt[r].triggered = res.triggered
           /\ rt[r].discard_rule = res.discard_rule
           /\ rt[r].selected = IF staged
                               THEN serieslevel_targets(rules, res.triggered).selected
                               ELSE <<>>
  ELSE rt[r].selected = get_routing_targets(rules).selected

\* the evaluation of the i-th rule raises in the router in use
Raises(rules, i) == Reached(rules, i) /\ rules[i].expr = "ERR"

\* C22: invalid rule isolation: a rule whose evaluation raises is not in the
\* triggered set and stages nothing, exactly one PROCESSING/ERROR event names it, the
\* other rules are evaluated as without it, and the run stages what the configuration
\* without that rule calls for: with one valid ROUTE rule next to it, one outgoing
\* folder with every file pair, as in the single-rule route.
C22_InvalidRuleIsolation ==
  \A r \in Routers :
    Evaluated(r) =>
      \A i \in 1..Len(cfg.rules) :
        Raises(cfg.rules, i) =>
          /\ \A k \in 1..Len(rt[r].triggered) : rt[r].triggered[k] # cfg.rules[i].name
          /\ \A k \in 1..Len(rt[r].selected) : rt[r].selected[k].rule # cfg.rules[i].name
          /\ Logged(r, <<"PROCESSING_ERROR", cfg.rules[i].name>>) = 1
          /\ DecidedAs(r, Without(cfg.rules, i))
          /\ (rt[r].pc = "idle" /\ rt[r].ret = "done" /\ SingleRoute) =>
               /\ incoming[rt[r].uid] = {}
               /\ Cardinality({f \in FolderIds : folder[f].zone # "none"}) = 1
               /\ \E f \in FolderIds :
                    /\ folder[f].zone = "outgoing" /\ ~folder[f].lock
                    /\ folder[f].files = SeriesFiles
                    /\ folder[f].task.applied_rule # cfg.rules[i].name
                    /\ folder[f].task.applied_rule
                         = get_triggered_rules(Without(cfg.rules, i)).triggered[1]

\* C22 witness: an invalid rule precedes a valid ROUTE rule, its error event is in
\* the log and the run has staged the series for the valid rule.
C22_Witness ==
  \E r \in Routers :
    /\ cfg.variant = "route"
    /\ Len(cfg.rules) >= 2
    /\ Raises(cfg.rules, 1)
    /\ rt[r].pc = "idle" /\ rt[r].ret = "done"
    /\ Logged(r, <<"PROCESSING_ERROR", cfg.rules[1].name>>) = 1
    /\ \E f \in FolderIds :
         /\ folder[f].zone = "outgoing" /\ folder[f].files = SeriesFiles
         /\ folder[f].task.applied_rule = cfg.rules[2].name

\* an event of the run of r names the rule n
Names(r, n) == \E k \in 1..Len(rt[r].log) : rt[r].log[k][2] = n

\* C23: a disabled rule is invisible to evaluation: whatever its expression and its
\* action, it is never in the triggered set, never the discard rule, never the rule
\* of a selected target or of a staged folder, no event names it, and the run decides
\* what the configuration without the rule calls for.
C23_DisabledInvisible ==
  \A i \in 1..Len(cfg.rules) :
    cfg.rules[i].disabled =>
      /\ \A f \in FolderIds : folder[f].task.applied_rule # cfg.rules[i].name
      /\ \A u \in Series : <<u, cfg.rules[i].name>> \notin study
      /\ \A r \in Routers :
           /\ \A k \in 1..Len(rt[r].triggered) : rt[r].triggered[k] # cfg.rules[i].name
           /\ \A k \in 1..Len(rt[r].selected) : rt[r].selected[k].rule # cfg.rules[i].name
           /\ rt[r].discard_rule # cfg.rules[i].name
           /\ ~Names(r, cfg.rules[i].name)
           /\ Evaluated(r) => DecidedAs(r, Without(cfg.rules, i))
           /\ (Evaluated(r) /\ Len(cfg.rules) = 1) =>
                /\ rt[r].pc \notin {"stage", "stage_lock", "stage_task", "stage_copy",
                                    "stage_unlock", "study", "proc", "notif", "remove"}
                /\ \A f \in FolderIds : folder[f].zone \in {"none", "discard"}

\* C23 witness: a disabled DISCARD rule whose expression is true precedes a triggered
\* ROUTE rule, and the run has staged the series for the ROUTE rule.
C23_Witness ==
  \E r \in Routers :
    /\ cfg.variant = "route"
    /\ Len(cfg.rules) >= 2
    /\ cfg.rules[1].disabled /\ cfg.rules[1].expr = "T" /\ cfg.rules[1].action = "discard"
    /\ rt[r].pc = "idle" /\ rt[r].ret = "done"
    /\ incoming[rt[r].uid] = {}
    /\ \E f \in FolderIds :
         /\ folder[f].zone = "outgoing" /\ folder[f].files = SeriesFiles
         /\ folder[f].task.applied_rule = cfg.rules[2].name

(***************************************************************************)
(* Two calls of the router on the same series, one after the other: the    *)
(* second call starts when the first one has ended, no file arrives in     *)
(* between and no I/O operation fails.                                     *)
(***************************************************************************)
FirstCaller == "r1"
SecondCaller == "r2"

\* the call of r has ended, by return or by exception
Ended(r) == rt[r].pc = "idle" /\ rt[r].ret # ""

InitTwice ==
  /\ cfg \in {Config(v, rules, ok, 1, 0) :
                v \in {"route", "process"}, rules \in RuleSets, ok \in BOOLEAN}
  /\ incoming = [u \in Series |-> SeriesFiles]
  /\ folder = [f \in FolderIds |-> NoFolder]
  /\ slock = [u \in Series |-> FALSE]
  /\ study = {}
  /\ rt = [r \in Routers |-> IdleRouter]
  /\ faults = MaxFaults
  /\ QuietDispatch

FirstCall == ~Ended(FirstCaller) /\ Router(FirstCaller)

SecondCall == Ended(FirstCaller) /\ ~Ended(SecondCaller) /\ Router(SecondCaller)

NextTwice == FirstCall \/ SecondCall

SpecTwice == InitTwice /\ [][NextTwice]_vars

\* the run of r emits a ROUTE or DISCARD event in this step
EmitsStaging(r) ==
  /\ Len(rt'[r].log) > Len(rt[r].log)
  /\ rt'[r].log[Len(rt'[r].log)][1] \in {"ROUTE", "DISCARD"}

\* C24: router idempotence: a second call of the router after a first call has ended,
\* with no new file in incoming/, creates no outgoing, processing, discard or study
\* folder, emits no ROUTE or DISCARD event and leaves incoming/ and every folder as the
\* first call left them; when it has ended the series lock is gone again.
C24_RouterIdempotent ==
  /\ [][SecondCall =>
          /\ incoming' = incoming
          /\ folder' = folder
          /\ study' = study
          /\ ~EmitsStaging(SecondCaller)]_vars
  /\ [](Ended(SecondCaller) => \A u \in Series : ~slock[u])

(***************************************************************************)
(* Dispatcher ticks that follow one another with nothing in between: the   *)
(* workers make no progress, the clock does not reach a later              *)
(* next_retry_at and no folder is staged.  The ticks start from the        *)
(* conditions a folder of outgoing/ can be in.                             *)
(***************************************************************************)
RescanCases ==
  { StagedFolder,
    [StagedFolder EXCEPT !.task.retries = 1, !.task.next_retry_at = 1],
    [StagedFolder EXCEPT !.task.retries = 1, !.task.next_retry_at = 2],
    [StagedFolder EXCEPT !.sending = TRUE],
    [StagedFolder EXCEPT !.sending = TRUE, !.sent = TRUE],
    [StagedFolder EXCEPT !.lock = TRUE, !.files = {}],
    [NoFolder EXCEPT !.zone = "outgoing"],
    [StagedFolder EXCEPT !.zone = "success", !.sent = TRUE],
    [StagedFolder EXCEPT !.zone = "error"] }

InitRescan ==
  /\ cfg = Config("route", <<>>, TRUE, MaxRetryMax, MaxRetryDelay)
  /\ incoming = [u \in Series |-> {}]
  /\ folder \in {fl \in [FolderIds -> RescanCases \cup {NoFolder}] :
                   \A f \in FolderIds : fl[f] = NoFolder <=> f > NumStaged}
  /\ QuietRouter
  /\ QuietDispatch

NextRescan == Dispatcher

SpecRescan == InitRescan /\ [][NextRescan]_vars

\* a tick has scanned outgoing/ and returned
ScanDone == dsp.pc = "idle" /\ dsp.ret = "done"

\* no entry of outgoing/ is claimable or carries the sent marker
Quiescent ==
  \A f \in FolderIds :
    /\ ~has_been_send(f)
    /\ ~(is_ready_for_sending(f).present /\ DelayPassed(is_ready_for_sending(f)))

\* C25: dispatcher idempotence: once a scan has completed, a scan that follows it with
\* no worker progress and no new folder in between claims no folder and finds no sent
\* folder to move: no step of it creates a sentinel, enqueues a job or changes a folder.
C25_DispatcherIdempotent ==
  /\ [](ScanDone => [](Quiescent /\ dsp.pc \notin {"touch", "enqueue"}))
  /\ [][(Quiescent /\ dsp.pc \in {"idle", "scan"}) =>
          (folder' = folder /\ queue' = queue /\ evlog' = evlog)]_vars

\* C25 witness: both staged folders were claimed by a completed scan, and a later scan
\* is looking at their entries again.
C25_Witness ==
  /\ dsp.pc = "scan" /\ dsp.todo # {}
  /\ Len(queue) = NumStaged
  /\ \A f \in FolderIds :
       f <= NumStaged => (folder[f].zone = "outgoing" /\ folder[f].sending)

\* a tick starts in this step and its read_config() fails: the warning event is sent
\* and dispatch() returns
ConfigFails == dsp.pc = "idle" /\ dsp' # dsp /\ dsp'.ret = "config"

\* C26: a tick whose read_config() fails ends with its CONFIG_UPDATE warning: it scans
\* no entry, enqueues no job, creates no .sending and moves or modifies no folder.
C26_ConfigFailure ==
  /\ [][ConfigFails =>
          /\ dsp'.pc = "idle" /\ dsp'.todo = {}
          /\ folder' = folder
          /\ queue' = queue
          /\ evlog' = evlog]_vars
  /\ [](dsp.ret = "config" => (dsp.pc = "idle" /\ dsp.todo = {}))

\* C26 witness: a tick has ended on a failed read_config() while a folder of outgoing/
\* is eligible and unclaimed.
C26_Witness ==
  /\ dsp.pc = "idle" /\ dsp.ret = "config"
  /\ queue = <<>>
  /\ \E f \in FolderIds : Eligible(f)

\* the run of r could not create a target folder or could not write its descriptor
StagingFailed(r) ==
  /\ rt[r].selected # <<>>
  /\ Logged(r, <<"PROCESSING_ERROR", "mkdir">>)
       + Logged(r, <<"PROCESSING_ERROR", "taskfile">>) >= 1

\* C27: when the staging of a target fails on mkdir or on the write of the task
\* descriptor, the series is only abandoned for this tick: after route_series has
\* returned, every file of the series is still in incoming/ and the series lock is
\* free, for any number of triggered rules.
C27_StagingFailureKeepsSeries ==
  \A r \in Routers :
    (/\ cfg.variant = "route"
     /\ rt[r].pc = "idle" /\ rt[r].ret = "done"
     /\ StagingFailed(r)
     /\ \A o \in Routers \ {r} : rt[o] = IdleRouter) =>
      /\ incoming[rt[r].uid] = SeriesFiles
      /\ ~slock[rt[r].uid]

(***************************************************************************)
(* I/O failures in the failure handling of execute(): the steps that       *)
(* follow a failed transfer can fail themselves, at most MaxFaults times.  *)
(***************************************************************************)
\* _increase_retry: open() or json.load() of target.json raises; the exception is
\* raised inside the handler of CalledProcessError and leaves execute()
WorkerRetryFault(w) ==
  /\ wk[w].pc = "failed"
  /\ faults < MaxFaults
  /\ faults' = faults + 1
  /\ Emit(wk[w].job.folder, <<"ERROR", 0, wk[w].job.target_name>>)
  /\ wk' = [wk EXCEPT ![w] = IdleWorker]
  /\ UNCHANGED <<cfg, incoming, slock, folder, study, rt, dsp, queue, now, hist, terminated>>
  /\ UNCHANGED sideVars

\* (source_folder / ".sending").unlink() raises and leaves execute()
WorkerUnlinkFault(w) ==
  /\ wk[w].pc = "unlink"
  /\ faults < MaxFaults
  /\ faults' = faults + 1
  /\ wk' = [wk EXCEPT ![w] = IdleWorker]
  /\ UNCHANGED <<cfg, incoming, slock, folder, study, rt, dsp, queue, now, hist, evlog,
                 terminated>>
  /\ UNCHANGED sideVars

\* _move_sent_directory: shutil.move raises; the exception is caught and reported
\* there, and execute() goes on to send the MOVE event
WorkerMoveFault(w) ==
  /\ wk[w].pc = "move"
  /\ faults < MaxFaults
  /\ faults' = faults + 1
  /\ Emit(wk[w].job.folder, <<"MOVE", 0, "error">>)
  /\ wk' = [wk EXCEPT ![w] = IdleWorker]
  /\ UNCHANGED <<cfg, incoming, slock, folder, study, rt, dsp, queue, now, hist, terminated>>
  /\ UNCHANGED sideVars

WorkerFault(w) == WorkerRetryFault(w) \/ WorkerUnlinkFault(w) \/ WorkerMoveFault(w)

NextWorkerFault == NextDispatch \/ (\E w \in Workers : WorkerFault(w))

SpecWorkerFault == InitDispatch /\ [][NextWorkerFault]_vars

\* C28: whatever step of execute() fails after the transfer has failed, no folder is
\* left in outgoing/ with .sending present, no job outstanding and no sent marker
\* for the dispatcher to act on.
C28_WorkerFailureContained ==
  \A f \in FolderIds : ~(Orphaned(f) /\ ~folder[f].sent)

\* the dispatcher takes a step
DispatcherStep == dsp' # dsp

\* worker w is inside execute() past the external transfer
Finishing(w) == wk[w].pc \in {"ok", "failed", "unlink", "suspend", "move"}

\* C29: cooperative termination: a tick that starts after termination was requested
\* touches nothing; a tick during which it is requested finishes the entry it is
\* handling, that is it creates .sending and enqueues the job, and then goes on to no
\* further entry; the request itself and the ticks after it leave the queued and the
\* running transfers alone, and the workers go on with them.
C29_CooperativeTermination ==
  /\ [][(terminated /\ DispatcherStep) =>
          /\ dsp'.pc # "scan"
          /\ dsp.pc = "idle" =>
               (dsp'.pc = "idle" /\ folder' = folder /\ queue' = queue /\ evlog' = evlog)
          /\ dsp.pc = "touch" => (dsp'.pc = "enqueue" /\ folder'[dsp.cur].sending)
          /\ dsp.pc = "enqueue" => (dsp'.pc = "idle" /\ Enqueues(dsp.cur))
          /\ wk' = wk
          /\ \A i \in 1..Len(queue) : queue'[i] = queue[i]]_vars
  /\ [][(~terminated /\ terminated') =>
          (dsp' = dsp /\ folder' = folder /\ queue' = queue /\ wk' = wk)]_vars
  /\ [](terminated =>
          \A w \in Workers :
            /\ Finishing(w) => ENABLED Worker(w)
            /\ (wk[w].pc = "idle" /\ queue # <<>>) => ENABLED WorkerTake(w))

\* C29 witness: termination was requested while the dispatcher was claiming an entry,
\* with further entries left to scan and a transfer of another folder running.
C29_Witness ==
  /\ terminated
  /\ dsp.pc = "enqueue" /\ dsp.todo # {}
  /\ \E w \in Workers : wk[w].pc = "run" /\ wk[w].job.folder # dsp.cur

\* the i-th rule is an enabled DISCARD rule whose expression is true
Discards(rules, i) ==
  ~rules[i].disabled /\ rules[i].expr = "T" /\ rules[i].action = "discard"

\* the i-th rule is the first triggered DISCARD rule of the configuration
FirstDiscard(rules, i) ==
  Discards(rules, i) /\ \A j \in 1..(i - 1) : ~Discards(rules, j)

\* the name n is in the triggered set of the run of r
Triggered(r, n) == \E k \in 1..Len(rt[r].triggered) : rt[r].triggered[k] = n

\* C30: the evaluation of route_series stops at the first triggered DISCARD rule: it
\* is the discard rule and the last of the triggered set, no rule after it is in the
\* triggered set or has an error event, the rules triggered before it are in the
\* triggered set, and the run stages nothing for them.
C30_StopsAtDiscard ==
  \A r \in Routers :
    (cfg.variant = "route" /\ Evaluated(r)) =>
      \A d \in 1..Len(cfg.rules) :
        FirstDiscard(cfg.rules, d) =>
          /\ rt[r].discard_rule = cfg.rules[d].name
          /\ rt[r].triggered # <<>>
          /\ rt[r].triggered[Len(rt[r].triggered)] = cfg.rules[d].name
          /\ \A j \in (d + 1)..Len(cfg.rules) :
               /\ ~Triggered(r, cfg.rules[j].name)
               /\ ~Names(r, cfg.rules[j].name)
          /\ \A j \in 1..(d - 1) :
               /\ (~cfg.rules[j].disabled /\ cfg.rules[j].expr = "T")
                    <=> Triggered(r, cfg.rules[j].name)
               /\ (~cfg.rules[j].disabled /\ cfg.rules[j].expr = "ERR")
                    <=> Logged(r, <<"PROCESSING_ERROR", cfg.rules[j].name>>) = 1
          /\ rt[r].selected = <<>>
          /\ rt[r].pc \in {"discard", "idle"}
          /\ \A t \in TargetNames : Routed(r, t) = 0
          /\ \A f \in FolderIds : folder[f].zone \in {"none", "discard"}
          /\ study = {}

\* C30 witness: a ROUTE rule triggers, a DISCARD rule after it triggers, an invalid
\* rule follows, and the call has ended with both triggered rules on record.
C30_Witness ==
  \E r \in Routers :
    /\ cfg.variant = "route" /\ Evaluated(r)
    /\ Len(cfg.rules) = 3
    /\ ~cfg.rules[1].disabled /\ cfg.rules[1].expr = "T" /\ cfg.rules[1].action = "route"
    /\ FirstDiscard(cfg.rules, 2)
    /\ ~cfg.rules[3].disabled /\ cfg.rules[3].expr = "ERR"
    /\ rt[r].triggered = <<cfg.rules[1].name, cfg.rules[2].name>>
    /\ rt[r].pc = "idle" /\ rt[r].ret # ""

(***************************************************************************)
(* Per-target failure isolation of the outgoing staging loop.              *)
(***************************************************************************)
\* the positions of the selected targets of the run of r for which outgoing/ holds
\* no folder with the descriptor of that target and every file of the series
NotStaged(r) ==
  {i \in 1..Len(rt[r].selected) :
     ~\E f \in FolderIds :
        /\ folder[f].zone = "outgoing"
        /\ Complete(folder[f].task)
        /\ folder[f].task.target_name = rt[r].selected[i].target
        /\ folder[f].files = SeriesFiles}

\* the PROCESSING/ERROR events of the staging loop in the log of the run of r
StagingErrors(r) ==
  Logged(r, <<"PROCESSING_ERROR", "target">>) + Logged(r, <<"PROCESSING_ERROR", "mkdir">>)
    + Logged(r, <<"PROCESSING_ERROR", "taskfile">>)

\* C31: per-target failure isolation: once the staging loop of a run has ended, every
\* selected target without a full outgoing folder is one that failed (unknown target,
\* failed mkdir, failed descriptor write) and has its own PROCESSING/ERROR event;
\* every other selected target has its folder with descriptor and files.
C31_TargetIsolation ==
  \A r \in Routers :
    (Staged(r) /\ rt[r].selected # <<>> /\ \A o \in Routers \ {r} : rt[o] = IdleRouter) =>
      Cardinality(NotStaged(r)) <= StagingErrors(r)

(***************************************************************************)
(* The error quarantiner: route_error_files / process_error_files.         *)
(***************************************************************************)
\* the entries of incoming/ that end in .error, locked or not, with or without payload
ErrFileKinds ==
  {[marker |-> m, payload |-> p, lock |-> l] :
     m \in {"none", "incoming"}, p \in {"none", "incoming"}, l \in BOOLEAN}

\* for entry in os.scandir(incoming): the entries that end in .error
SweepStart ==
  /\ sweeper.pc = "idle"
  /\ sweeper' = [sweeper EXCEPT !.pc = "scan", !.found = 0, !.ret = "", !.cur = "",
                                !.todo = {n \in ErrNames : errfile[n].marker = "incoming"}]
  /\ UNCHANGED <<cfg, incoming, slock, folder, study, rt, faults, errfile, archive>>
  /\ UNCHANGED dispatchVars

\* one .error entry: the lock path, lock_file.exists(), FileLock(lock_file).  In
\* route_series the path is built as str / str, which raises TypeError outside any
\* handler, so the exception leaves route_error_files.
SweepEntry ==
  /\ sweeper.pc = "scan"
  /\ sweeper.todo # {}
  /\ \E n \in sweeper.todo :
       IF cfg.variant = "route"
       THEN /\ sweeper' = [sweeper EXCEPT !.pc = "idle", !.todo = {}, !.ret = "exception"]
            /\ UNCHANGED <<errfile, faults>>
       ELSE IF errfile[n].lock
       THEN /\ sweeper' = [sweeper EXCEPT !.todo = @ \ {n}]
            /\ UNCHANGED <<errfile, faults>>
       ELSE \E touchFails \in BOOLEAN :
              /\ touchFails => faults < MaxFaults
              /\ faults' = IF touchFails THEN faults + 1 ELSE faults
              /\ LET res == FileLock_init(errfile[n].lock, touchFails) IN
                 IF res.raised
                 THEN /\ errfile' = [errfile EXCEPT
                                       ![n].lock = FileLock_del(res.created, res.exists)]
                      /\ sweeper' = [sweeper EXCEPT !.todo = @ \ {n}]
                 ELSE /\ errfile' = [errfile EXCEPT ![n].lock = res.exists]
                      /\ sweeper' = [sweeper EXCEPT !.pc = "marker", !.todo = @ \ {n},
                                                    !.cur = n, !.lock = res.created,
                                                    !.found = @ + 1]
  /\ UNCHANGED <<cfg, incoming, slock, folder, study, rt, archive>>
  /\ UNCHANGED dispatchVars

\* shutil.move(incoming/<n>.error, error/<n>.error)
SweepMarker ==
  /\ sweeper.pc = "marker"
  /\ errfile' = [errfile EXCEPT ![sweeper.cur].marker = "error"]
  /\ sweeper' = [sweeper EXCEPT !.pc = "payload"]
  /\ UNCHANGED <<cfg, incoming, slock, folder, study, rt, faults, archive>>
  /\ UNCHANGED dispatchVars

\* if dicom_file.exists(): shutil.move(incoming/<n>, error/<n>)
SweepPayload ==
  /\ sweeper.pc = "payload"
  /\ errfile' = [errfile EXCEPT ![sweeper.cur].payload =
                    IF @ = "incoming" THEN "error" ELSE @]
  /\ sweeper' = [sweeper EXCEPT !.pc = "free"]
  /\ UNCHANGED <<cfg, incoming, slock, folder, study, rt, faults, archive>>
  /\ UNCHANGED dispatchVars

\* lock.free()
SweepFree ==
  /\ sweeper.pc = "free"
  /\ LET res == FileLock_free(sweeper.lock, errfile[sweeper.cur].lock) IN
     /\ errfile' = [errfile EXCEPT ![sweeper.cur].lock = res.exists]
     /\ sweeper' = [sweeper EXCEPT !.pc = "scan", !.cur = "", !.lock = res.created]
  /\ UNCHANGED <<cfg, incoming, slock, folder, study, rt, faults, archive>>
  /\ UNCHANGED dispatchVars

\* the end of the loop: if error_files_found > 0: send_event(PROCESSING, ERROR, count)
SweepEnd ==
  /\ sweeper.pc = "scan"
  /\ sweeper.todo = {}
  /\ sweeper' = [sweeper EXCEPT
       !.pc = "idle", !.ret = "done",
       !.log = IF sweeper.found > 0
               THEN Append(@, <<"PROCESSING_ERROR", sweeper.found>>) ELSE @]
  /\ UNCHANGED <<cfg, incoming, slock, folder, study, rt, faults, errfile, archive>>
  /\ UNCHANGED dispatchVars

Sweeper == SweepStart \/ SweepEntry \/ SweepMarker \/ SweepPayload \/ SweepFree \/ SweepEnd

\* incoming/ holds error markers, some locked by the receiver, some with a payload
InitSweep ==
  /\ cfg \in {Config(v, <<>>, TRUE, 1, 0) : v \in {"route", "process"}}
  /\ incoming = [u \in Series |-> {}]
  /\ folder = [f \in FolderIds |-> NoFolder]
  /\ QuietRouter
  /\ dsp = IdleDispatcher
  /\ queue = <<>>
  /\ wk = [w \in Workers |-> IdleWorker]
  /\ now = 1
  /\ hist = [f \in FolderIds |-> [attempts |-> 0, fails |-> 0]]
  /\ evlog = [f \in FolderIds |-> <<>>]
  /\ terminated = FALSE
  /\ errfile \in [ErrNames -> ErrFileKinds]
  /\ sweeper = IdleSweeper
  /\ archive = EmptyArchive

NextSweep == Sweeper

SpecSweep == InitSweep /\ [][NextSweep]_vars

\* a sweep has ended, by return or by an exception
Swept == sweeper.pc = "idle" /\ sweeper.ret # ""

\* RECURSIVE sum of the counts of the aggregate events of the sweeps so far
RECURSIVE Reported(_)
Reported(log) == IF log = <<>> THEN 0 ELSE log[1][2] + Reported(Tail(log))

\* C32: error quarantiner: after a sweep in which no lock creation failed, every
\* error marker left in incoming/ is busy-locked; a marker moved to error/ has its
\* payload there too if it had one, and its lock is removed; the aggregate events
\* count the markers moved, one event per sweep that moved any; and no step touches
\* a busy-locked marker or a file without marker.
C32_ErrorQuarantine ==
  /\ []((Swept /\ faults = 0) =>
          /\ \A n \in ErrNames :
               /\ errfile[n].marker = "incoming" => errfile[n].lock
               /\ errfile[n].marker = "error" =>
                    errfile[n].payload # "incoming" /\ ~errfile[n].lock
          /\ Reported(sweeper.log) = Cardinality({n \in ErrNames : errfile[n].marker = "error"})
          /\ \A k \in 1..Len(sweeper.log) : sweeper.log[k][2] >= 1)
  /\ [][\A n \in ErrNames :
          ((errfile[n].lock /\ sweeper.cur # n) \/ errfile[n].marker = "none") =>
            errfile'[n] = errfile[n]]_vars

(***************************************************************************)
(* Collision-safe move into success/ and error/.                           *)
(***************************************************************************)
\* entries that success/ or error/ may hold before the dispatcher runs, under the
\* basename of a staged folder
OldEntries == {Entry(1, NoStamp, TRUE)}

\* the router has staged NumStaged folders; success/ and error/ may hold an entry
\* with the basename of the first one
InitCollide ==
  /\ cfg \in {Config("route", <<>>, TRUE, rmax, 0) : rmax \in 1..MaxRetryMax}
  /\ incoming = [u \in Series |-> {}]
  /\ folder = [f \in FolderIds |-> IF f <= NumStaged THEN StagedFolder ELSE NoFolder]
  /\ QuietRouter
  /\ dsp = IdleDispatcher
  /\ queue = <<>>
  /\ wk = [w \in Workers |-> IdleWorker]
  /\ now = 1
  /\ hist = [f \in FolderIds |-> [attempts |-> 0, fails |-> 0]]
  /\ evlog = [f \in FolderIds |-> <<>>]
  /\ terminated = FALSE
  /\ errfile = [n \in ErrNames |-> NoErrFile]
  /\ sweeper = IdleSweeper
  /\ archive \in [Destinations -> SUBSET OldEntries]

SpecCollide == InitCollide /\ [][NextDispatch]_vars

\* C33: collision-safe move: a folder moved from outgoing/ into success/ or error/
\* is placed under <basename>_<timestamp> when <basename> exists there and under
\* <basename> otherwise; the entries the destination held stay as they were; the
\* moved folder has no .sending, and it is no longer in outgoing/.
C33_CollisionSafeMove ==
  /\ [][\A f \in FolderIds : \A d \in Destinations :
          (folder[f].zone = "outgoing" /\ folder'[f].zone = d) =>
            /\ ~folder'[f].sending
            /\ archive[d] \subseteq archive'[d]
            /\ archive'[d] \ archive[d] =
                 {Entry(f, IF NameTaken(archive, f, d) THEN now ELSE NoStamp, FALSE)}
            /\ NameTaken(archive, f, d) => now # NoStamp
            /\ \A o \in Destinations \ {d} : archive'[o] = archive[o]]_vars
  /\ [](\A f \in FolderIds :
          /\ folder[f].zone = "outgoing" =>
               \A d \in Destinations : ~\E e \in archive[d] : e.name = f /\ ~e.old
          /\ \A d \in Destinations :
               folder[f].zone = d =>
                 /\ ~folder[f].sending
                 /\ Cardinality({e \in archive[d] : e.name = f /\ ~e.old}) = 1)

\* C33 witness: success/ held an entry with the basename of folder 1; the folder was
\* moved there under a timestamped name next to the old entry, without .sending.
C33_Witness ==
  /\ folder[1].zone = "success" /\ ~folder[1].sending
  /\ Entry(1, NoStamp, TRUE) \in archive["success"]
  /\ \E t \in 1..MaxTime : Entry(1, t, FALSE) \in archive["success"]
  /\ \E f \in FolderIds : folder[f].zone = "error" /\ Entry(f, NoStamp, FALSE) \in archive["error"]

\* exactly one rule of the configuration triggers, a series-level NOTIFICATION rule
NotificationOnly ==
  LET res == get_triggered_rules(cfg.rules) IN
  /\ Len(res.triggered) = 1
  /\ res.discard_rule = ""
  /\ IsNotification(RuleNamed(cfg.rules, res.triggered[1]))

\* C34: notification-only series: a run of route_series whose only triggered rule is a
\* series-level NOTIFICATION rule fires the webhook once, removes every file of the
\* series from incoming/, creates no folder and releases the series lock; when other
\* rules triggered as well, the notification pass removes no file.
C34_NotificationOnly ==
  /\ [](\A r \in OneRouter :
          (cfg.variant = "route" /\ NotificationOnly /\ Ended(r)) =>
            /\ Logged(r, <<"WEBHOOK", get_triggered_rules(cfg.rules).triggered[1]>>) = 1
            /\ incoming[rt[r].uid] = {}
            /\ \A f \in FolderIds : folder[f].zone = "none"
            /\ study = {}
            /\ ~slock[rt[r].uid])
  /\ [][\A r \in OneRouter :
          (rt[r].pc = "notif" /\ Len(rt[r].triggered) > 1) => incoming' = incoming]_vars

\* the payload files staged in folder f, wherever the folder is now
PayloadFiles(f) == {x \in folder[f].files : x[2] = "dcm"}

\* C35: implicit: whatever the interleaving of a succeeding worker and the dispatcher
\* ticks, the file_count of every DISPATCH event equals the number of payload files
\* that were staged in the folder.
C35_DispatchCount ==
  \A f \in FolderIds : \A i \in 1..Len(evlog[f]) :
    evlog[f][i][1] = "DISPATCH" => evlog[f][i][2] = Cardinality(PayloadFiles(f))

\* a transfer job of folder f is executing in some worker
Executing(f) == \E w \in Workers : wk[w].pc # "idle" /\ wk[w].job.folder = f

\* folder f has an entry of its own in destination d
PlacedIn(f, d) == \E e \in archive[d] : e.name = f /\ ~e.old

\* a folder is in success/ only after an attempt that exited with 0, in error/ only
\* after retry_max attempts that all failed, and never in both
DestinationJustified ==
  \A f \in FolderIds :
    /\ (folder[f].zone = "success" \/ PlacedIn(f, "success")) =>
         hist[f].attempts > hist[f].fails
    /\ (folder[f].zone = "error" \/ PlacedIn(f, "error")) =>
         (hist[f].attempts = hist[f].fails /\ hist[f].fails >= cfg.retry_max)
    /\ ~(PlacedIn(f, "success") /\ PlacedIn(f, "error"))

\* C36: implicit: destination soundness: a folder is in success/ only if some attempt
\* on it exited with 0, in error/ by the dispatch path only if its attempts failed
\* and their number reached retry_max, never in both; and no folder is moved to
\* success/ while a transfer job for it is still executing.
C36_DestinationSound ==
  /\ []DestinationJustified
  /\ [][\A f \in FolderIds :
          (folder[f].zone = "outgoing" /\ folder'[f].zone = "success") => ~Executing(f)]_vars

(***************************************************************************)
(* Progress of the router: the timer keeps calling the router, no I/O      *)
(* operation fails and the tags of the series are readable.                *)
(***************************************************************************)
\* the configurations of RuleSets, a sole ROUTE rule with an empty target and a sole
\* rule with action BOTH
ProgressRuleSets ==
  RuleSets \cup { <<Rule("ra", FALSE, "T", "route", "series", "")>>,
                  <<Rule("rb", FALSE, "T", "both", "series", "t1")>> }

InitProgress ==
  /\ cfg \in {Config(v, rules, TRUE, 1, 0) :
                v \in {"route", "process"}, rules \in ProgressRuleSets}
  /\ incoming = [u \in Series |-> SeriesFiles]
  /\ folder = [f \in FolderIds |-> NoFolder]
  /\ slock = [u \in Series |-> FALSE]
  /\ study = {}
  /\ rt = [r \in Routers |-> IdleRouter]
  /\ faults = MaxFaults
  /\ QuietDispatch

NextProgress == \E r \in OneRouter : Router(r)

\* the router timer keeps firing and every call runs on
FairProgress == \A r \in OneRouter : WF_vars(Router(r))

SpecProgress == InitProgress /\ [][NextProgress]_vars /\ FairProgress

\* C37: implicit: router progress: under repeated router ticks and without I/O
\* failure, every series in incoming/ with readable tags eventually leaves incoming/,
\* whatever the rule configuration, as long as a folder name is left to stage it
\* under; no series is processed again on every tick forever.
C37_RouterProgress ==
  \A u \in Series : <>(incoming[u] = {} \/ ~HasFresh)

====
